---- MODULE Spec2Model ----
(***************************************************************************)
(* State-machine model of the PACTO-LAT stablecoin Soroban contract        *)
(* (Contracts/stablecoin/src).  One action per contract entry point.  The  *)
(* contract keeps its state in host storage through the stellar-fungible,  *)
(* stellar-access-control and stellar-pausable libraries; their storage    *)
(* cells are the variables below.  The host runs every invocation as one   *)
(* transaction: an entry point that returns Err or panics has all of its   *)
(* storage writes rolled back.                                             *)
(***************************************************************************)
EXTENDS Integers, Sequences, FiniteSets, TLC

VARIABLES
    metadata,       \* fungible Metadata cell: NoMetadata or [decimals, name, symbol]
    admin,          \* access-control Admin cell: NoAdmin or an address
    roles,          \* access-control role membership: role -> set of holders
    is_paused,      \* pausable Paused cell
    balances,       \* fungible Balance(address) cells, absent = 0
    allowances,     \* fungible Allowance(owner, spender) cells: [amount, live_until_ledger]
    supply,         \* fungible TotalSupply cell
    ledger,         \* current ledger sequence number of the host
    steps,          \* number of invocations that committed a state change
    last            \* the last invocation: entry point, arguments, outcome

storeVars == <<metadata, admin, roles, is_paused, balances, allowances, supply>>
vars == <<metadata, admin, roles, is_paused, balances, allowances, supply, ledger, steps, last>>

----------------------------------------------------------------------------
(* Program constants (types.rs) *)

DECIMALS == 0
NAME == "Costa Rica Colon"
SYMBOL == "CRCX"

PAUSER_ROLE == "pauser"
UPGRADER_ROLE == "upgrader"
MINTER_ROLE == "minter"

MAX_SUPPLY == 1000000000
MAX_SINGLE_OPERATION == 100000000
MIN_AMOUNT == 5

ENABLE_SUPPLY_LIMITS == TRUE
ENABLE_OPERATION_LIMITS == TRUE

MINT_EVENT == "mint"
BURN_EVENT == "burn"
TRANSFER_EVENT == "transfer"
PAUSE_EVENT == "pause"
UNPAUSE_EVENT == "unpause"

----------------------------------------------------------------------------
(* Bounds of the model *)

MaxSteps == 3       \* state-changing invocations explored from the initial state
MaxLedger == 1      \* ledger sequence numbers 0..MaxLedger
MaxBatch == 2       \* longest recipients vector passed to batch_mint

Addr == {"GA1", "GA2", "GA3"}
NoAddr == "none"
NoAdmin == "none"
NoMetadata == [set |-> FALSE, decimals |-> 0, name |-> "", symbol |-> ""]
Roles == {PAUSER_ROLE, UPGRADER_ROLE, MINTER_ROLE}

\* arguments of initialize: <<admin, pauser, upgrader, minter>>
InitArgs == {<<"GA1", "GA2", "GA1", "GA3">>}

\* amounts passed to mint / transfer / burn and their allowance variants
Amounts == {-1, 0, 1, MIN_AMOUNT - 1, MIN_AMOUNT}
\* accounts that are credited and debited
Holders == {"GA1", "GA2"}
\* (owner, spender) pairs of approve / transfer_from / burn_from
Owners == {"GA1"}
Spenders == {"GA1", "GA3"}
\* amounts and expiration ledgers passed to approve
ApproveAmounts == {0, MIN_AMOUNT + 1}
Expirations == {0, MaxLedger}
\* recipients vectors passed to batch_mint
BatchEntries == {<<"GA1", MIN_AMOUNT>>, <<"GA2", MIN_AMOUNT - 1>>}
Batches == UNION {[1..n -> BatchEntries] : n \in 0..MaxBatch}
\* an invocation without the authorization it requires is explored for one
\* amount only: it fails before or after validation whatever the amount
UnauthAmount == MIN_AMOUNT

----------------------------------------------------------------------------
(* The storage of the contract as one value, and results of calls.  A      *)
(* result carries the error ("Ok" when none) and the storage as the call   *)
(* left it at the point where it returned or panicked.                     *)

Store == [metadata |-> metadata, admin |-> admin, roles |-> roles,
          is_paused |-> is_paused, balances |-> balances,
          allowances |-> allowances, supply |-> supply]

Ok(s) == [err |-> "Ok", store |-> s]
Err(e, s) == [err |-> e, store |-> s]
Then(r, F(_)) == IF r.err = "Ok" THEN F(r.store) ELSE r
Check(e, s) == IF e = "Ok" THEN Ok(s) ELSE Err(e, s)

\* caller.require_auth(): the host fails the invocation unless it carries
\* the authorization of that address
require_auth(s, authed) == IF authed THEN Ok(s) ELSE Err("AuthFailed", s)

----------------------------------------------------------------------------
(* stellar-pausable *)

paused(s) == s.is_paused

\* mutant of pausable_pause: pausing a paused contract is accepted
pausable_pause_idempotent(s) == Ok([s EXCEPT !.is_paused = TRUE])

pausable_pause(s) ==
    IF paused(s) THEN Err("EnforcedPause", s)
    ELSE Ok([s EXCEPT !.is_paused = TRUE])

pausable_unpause(s) ==
    IF ~paused(s) THEN Err("ExpectedPause", s)
    ELSE Ok([s EXCEPT !.is_paused = FALSE])

----------------------------------------------------------------------------
(* stellar-access-control *)

has_role(s, account, role) == account \in s.roles[role]

get_admin(s) == s.admin

ensure_role(s, caller, role) ==
    IF has_role(s, caller, role) THEN Ok(s) ELSE Err("Unauthorized", s)

\* set_admin: a library build that guards the Admin cell panics with
\* AdminAlreadySet when it is occupied, one that does not overwrites it.
set_admin(s, a, guarded) ==
    IF guarded /\ s.admin # NoAdmin THEN Err("AdminAlreadySet", s)
    ELSE Ok([s EXCEPT !.admin = a])

grant_role_no_auth(s, account, role) ==
    IF has_role(s, account, role) THEN Ok(s)
    ELSE Ok([s EXCEPT !.roles[role] = @ \cup {account}])

----------------------------------------------------------------------------
(* stellar-fungible Base *)

Base_set_metadata(s, decimals, name, symbol) ==
    Ok([s EXCEPT !.metadata = [set |-> TRUE, decimals |-> decimals,
                               name |-> name, symbol |-> symbol]])

Base_balance(s, a) == s.balances[a]
Base_total_supply(s) == s.supply

\* the allowance record as stored; no record reads as amount 0
Base_allowance_data(s, owner, spender) == s.allowances[<<owner, spender>>]

\* mutant of Base_allowance: live_until_ledger is ignored
Base_allowance_no_expiry(s, lg, owner, spender) == Base_allowance_data(s, owner, spender).amount

\* the allowance as reported: 0 once live_until_ledger has passed
Base_allowance(s, lg, owner, spender) ==
    LET a == Base_allowance_data(s, owner, spender)
    IN IF a.live_until_ledger < lg THEN 0 ELSE a.amount

\* Base::update(from, to, amount) with None encoded as NoAddr
Base_update(s, from, to, amount) ==
    IF amount < 0 THEN Err("LessThanZero", s)
    ELSE IF from # NoAddr /\ Base_balance(s, from) < amount THEN Err("InsufficientBalance", s)
    ELSE
      LET s1 == IF from # NoAddr
                THEN [s EXCEPT !.balances[from] = @ - amount]
                ELSE [s EXCEPT !.supply = @ + amount]
          s2 == IF to # NoAddr
                THEN [s1 EXCEPT !.balances[to] = @ + amount]
                ELSE [s1 EXCEPT !.supply = @ - amount]
      IN Ok(s2)

Base_set_allowance(s, lg, owner, spender, amount, live_until_ledger) ==
    IF amount < 0 THEN Err("LessThanZero", s)
    ELSE IF amount > 0 /\ live_until_ledger < lg THEN Err("InvalidLiveUntilLedger", s)
    ELSE Ok([s EXCEPT !.allowances[<<owner, spender>>] =
                 [amount |-> amount, live_until_ledger |-> live_until_ledger]])

\* mutant of Base_spend_allowance: the allowance is neither checked nor spent
Base_spend_allowance_unchecked(s, lg, owner, spender, amount) == Ok(s)

\* spending reads the stored record: live_until_ledger is tested only by
\* set_allowance, when a positive remainder is written back
Base_spend_allowance(s, lg, owner, spender, amount) ==
    IF amount < 0 THEN Err("LessThanZero", s)
    ELSE LET a == Base_allowance_data(s, owner, spender)
         IN IF a.amount < amount THEN Err("InsufficientAllowance", s)
            ELSE IF amount > 0
                 THEN Base_set_allowance(s, lg, owner, spender, a.amount - amount,
                                         a.live_until_ledger)
                 ELSE Ok(s)

\* mutant of Base_mint: credits the account and leaves TotalSupply alone
Base_mint_no_supply(s, to, amount) ==
    IF amount < 0 THEN Err("LessThanZero", s)
    ELSE Ok([s EXCEPT !.balances[to] = @ + amount])

Base_mint(s, to, amount) == Base_update(s, NoAddr, to, amount)

Base_transfer(s, from, to, amount, authed) ==
    Then(require_auth(s, authed), LAMBDA s1 : Base_update(s1, from, to, amount))

Base_transfer_from(s, lg, spender, from, to, amount, authed) ==
    Then(require_auth(s, authed), LAMBDA s1 :
    Then(Base_spend_allowance(s1, lg, from, spender, amount), LAMBDA s2 :
         Base_update(s2, from, to, amount)))

Base_burn(s, from, amount, authed) ==
    Then(require_auth(s, authed), LAMBDA s1 : Base_update(s1, from, NoAddr, amount))

Base_burn_from(s, lg, spender, from, amount, authed) ==
    Then(require_auth(s, authed), LAMBDA s1 :
    Then(Base_spend_allowance(s1, lg, from, spender, amount), LAMBDA s2 :
         Base_update(s2, from, NoAddr, amount)))

Base_approve(s, lg, owner, spender, amount, live_until_ledger, authed) ==
    Then(require_auth(s, authed), LAMBDA s1 :
         Base_set_allowance(s1, lg, owner, spender, amount, live_until_ledger))

\* Base::name / symbol / decimals read the Metadata cell and panic when it is unset
Base_get_metadata(s) ==
    IF s.metadata.set THEN [err |-> "Ok", val |-> s.metadata]
    ELSE [err |-> "UnsetMetadata", val |-> s.metadata]

----------------------------------------------------------------------------
(* utils.rs: initialisation *)

initialize_token(s) == Base_set_metadata(s, DECIMALS, NAME, SYMBOL)

initialize_access_control(s, a, pauser, upgrader, minter, guarded) ==
    Then(set_admin(s, a, guarded), LAMBDA s1 :
    Then(grant_role_no_auth(s1, pauser, PAUSER_ROLE), LAMBDA s2 :
    Then(grant_role_no_auth(s2, upgrader, UPGRADER_ROLE), LAMBDA s3 :
         grant_role_no_auth(s3, minter, MINTER_ROLE))))

(* utils.rs: guards.  Each returns "Ok" or the error it raises. *)

\* Address::to_string is the strkey of the address, which addresses carry here
to_string(address) == address

validate_address(address) ==
    IF to_string(address) = "" THEN "ZeroAddress" ELSE "Ok"

validate_not_self_address(address) == "Ok"

validate_address_comprehensive(address) ==
    IF validate_address(address) # "Ok" THEN validate_address(address)
    ELSE validate_not_self_address(address)

\* mutant of validate_amount_range: the lower bound is "positive", as in
\* validate_mint_amount, instead of MIN_AMOUNT
validate_amount_positive(amount) ==
    IF amount <= 0 THEN "InvalidAmount"
    ELSE IF ENABLE_OPERATION_LIMITS /\ amount > MAX_SINGLE_OPERATION THEN "AmountTooLarge"
    ELSE "Ok"

\* mutant of validate_amount_range: the operation limit is not applied
validate_amount_range_unlimited(amount) ==
    IF amount < MIN_AMOUNT THEN "InvalidAmount" ELSE "Ok"

validate_amount_range(amount) ==
    IF amount < MIN_AMOUNT THEN "InvalidAmount"
    ELSE IF ENABLE_OPERATION_LIMITS /\ amount > MAX_SINGLE_OPERATION THEN "AmountTooLarge"
    ELSE "Ok"

\* value bits of an i128: its values are -2^I128_BITS .. 2^I128_BITS - 1
I128_BITS == 127

\* x halved n times, rounding down; 0 and -1 halve to themselves
RECURSIVE Halved(_, _)
Halved(x, n) == IF n = 0 \/ x = 0 \/ x = 0 - 1 THEN x ELSE Halved(x \div 2, n - 1)

\* x is a value of i128, that is -2^I128_BITS <= x < 2^I128_BITS
InI128(x) == Halved(x, I128_BITS) \in {0 - 1, 0}

\* i128::checked_add: None when the sum is not a value of i128
checked_add(a, b) ==
    IF InI128(a + b) THEN [some |-> TRUE, val |-> a + b] ELSE [some |-> FALSE, val |-> 0]

\* mutant of validate_supply_limits: the limit is switched off
validate_supply_limits_off(s, mint_amount) == "Ok"

\* mutant of validate_supply_limits: the supply before the mint is compared
\* with MAX_SUPPLY instead of the supply after it
validate_supply_limits_current(s, mint_amount) ==
    IF ~ENABLE_SUPPLY_LIMITS THEN "Ok"
    ELSE IF Base_total_supply(s) > MAX_SUPPLY THEN "ExceedsMaxSupply" ELSE "Ok"

validate_supply_limits(s, mint_amount) ==
    IF ~ENABLE_SUPPLY_LIMITS THEN "Ok"
    ELSE LET current_supply == Base_total_supply(s)
             new_supply == checked_add(current_supply, mint_amount)
         IN IF ~new_supply.some THEN "AmountTooLarge"
            ELSE IF new_supply.val > MAX_SUPPLY THEN "ExceedsMaxSupply"
            ELSE "Ok"

\* mutant of validate_transfer_addresses: from == to is let through
validate_transfer_addresses_off(from, to) == "Ok"

validate_transfer_addresses(from, to) ==
    IF from = to THEN "SelfTransfer" ELSE "Ok"

validate_balance(s, address, required_amount) ==
    LET balance == Base_balance(s, address)
    IN IF balance < required_amount THEN "InsufficientBalance" ELSE "Ok"

validate_contract_initialized(s) ==
    LET m == Base_get_metadata(s)
    IN IF m.err # "Ok" THEN m.err
       ELSE IF m.val.name = "" THEN "ContractNotInitialized"
       ELSE "Ok"

\* the first error of a list of guard outcomes, in order
FirstError(outcomes) ==
    IF \E i \in 1..Len(outcomes) : outcomes[i] # "Ok"
    THEN outcomes[CHOOSE i \in 1..Len(outcomes) :
                     /\ outcomes[i] # "Ok"
                     /\ \A j \in 1..(i-1) : outcomes[j] = "Ok"]
    ELSE "Ok"

\* mutant of validate_mint_comprehensive: the supply limit is checked
\* before the amount range
validate_mint_supply_first(s, to, amount) ==
    FirstError(<<validate_contract_initialized(s),
                 validate_address_comprehensive(to),
                 validate_supply_limits(s, amount),
                 validate_amount_range(amount)>>)

validate_mint_comprehensive(s, to, amount) ==
    FirstError(<<validate_contract_initialized(s),
                 validate_address_comprehensive(to),
                 validate_amount_range(amount),
                 validate_supply_limits(s, amount)>>)

\* mutant of validate_transfer_comprehensive: the amount range is not checked
validate_transfer_no_range(s, from, to, amount) ==
    FirstError(<<validate_contract_initialized(s),
                 validate_address_comprehensive(from),
                 validate_address_comprehensive(to),
                 validate_transfer_addresses(from, to),
                 validate_balance(s, from, amount)>>)

validate_transfer_comprehensive(s, from, to, amount) ==
    FirstError(<<validate_contract_initialized(s),
                 validate_address_comprehensive(from),
                 validate_address_comprehensive(to),
                 validate_transfer_addresses(from, to),
                 validate_amount_range(amount),
                 validate_balance(s, from, amount)>>)

validate_burn_comprehensive(s, from, amount) ==
    FirstError(<<validate_contract_initialized(s),
                 validate_address_comprehensive(from),
                 validate_amount_range(amount),
                 validate_balance(s, from, amount)>>)

----------------------------------------------------------------------------
(* contract.rs: the entry points as functions from the storage to a result *)

PausedGate(s) == IF paused(s) THEN Err("Paused", s) ELSE Ok(s)

initialize(s, a, pauser, upgrader, minter, guarded) ==
    Then(initialize_token(s), LAMBDA s1 :
         initialize_access_control(s1, a, pauser, upgrader, minter, guarded))

\* mutant of mint: the Minter role check is missing
mint_no_role_check(s, caller, to, amount, authed) ==
    Then(PausedGate(s), LAMBDA s1 :
    Then(require_auth(s1, authed), LAMBDA s2 :
    Then(Check(validate_mint_comprehensive(s2, to, amount), s2), LAMBDA s3 :
         Base_mint(s3, to, amount))))

\* mutant of mint: the caller is authenticated before the pause flag is read
mint_auth_first(s, caller, to, amount, authed) ==
    Then(require_auth(s, authed), LAMBDA s1 :
    Then(PausedGate(s1), LAMBDA s2 :
    Then(ensure_role(s2, caller, MINTER_ROLE), LAMBDA s3 :
    Then(Check(validate_mint_comprehensive(s3, to, amount), s3), LAMBDA s4 :
         Base_mint(s4, to, amount)))))

\* mutant of mint: the tokens are credited to the caller
mint_to_caller(s, caller, to, amount, authed) ==
    Then(PausedGate(s), LAMBDA s1 :
    Then(require_auth(s1, authed), LAMBDA s2 :
    Then(ensure_role(s2, caller, MINTER_ROLE), LAMBDA s3 :
    Then(Check(validate_mint_comprehensive(s3, to, amount), s3), LAMBDA s4 :
         Base_mint(s4, caller, amount)))))

\* mutant of mint: the tokens are credited before the mint is validated
mint_credit_first(s, caller, to, amount, authed) ==
    Then(PausedGate(s), LAMBDA s1 :
    Then(require_auth(s1, authed), LAMBDA s2 :
    Then(ensure_role(s2, caller, MINTER_ROLE), LAMBDA s3 :
    Then(Base_mint(s3, to, amount), LAMBDA s4 :
         Check(validate_mint_comprehensive(s3, to, amount), s4)))))

mint(s, caller, to, amount, authed) ==
    Then(PausedGate(s), LAMBDA s1 :
    Then(require_auth(s1, authed), LAMBDA s2 :
    Then(ensure_role(s2, caller, MINTER_ROLE), LAMBDA s3 :
    Then(Check(validate_mint_comprehensive(s3, to, amount), s3), LAMBDA s4 :
         Base_mint(s4, to, amount)))))

\* mutant of transfer: the recipient is not credited
transfer_no_credit(s, from, to, amount, authed) ==
    Then(PausedGate(s), LAMBDA s1 :
    Then(Check(validate_transfer_comprehensive(s1, from, to, amount), s1), LAMBDA s2 :
    Then(require_auth(s2, authed), LAMBDA s3 :
         Ok([s3 EXCEPT !.balances[from] = @ - amount]))))

transfer(s, from, to, amount, authed) ==
    Then(PausedGate(s), LAMBDA s1 :
    Then(Check(validate_transfer_comprehensive(s1, from, to, amount), s1), LAMBDA s2 :
         Base_transfer(s2, from, to, amount, authed)))

transfer_from(s, lg, spender, from, to, amount, authed) ==
    Then(PausedGate(s), LAMBDA s1 :
    Then(Check(validate_transfer_comprehensive(s1, from, to, amount), s1), LAMBDA s2 :
         Base_transfer_from(s2, lg, spender, from, to, amount, authed)))

\* mutant of burn: the total supply is not lowered
burn_keeps_supply(s, from, amount, authed) ==
    Then(PausedGate(s), LAMBDA s1 :
    Then(Check(validate_burn_comprehensive(s1, from, amount), s1), LAMBDA s2 :
    Then(require_auth(s2, authed), LAMBDA s3 :
         Ok([s3 EXCEPT !.balances[from] = @ - amount]))))

\* mutant of burn: the balance guard is missing and the debit is unchecked
burn_unchecked(s, from, amount, authed) ==
    Then(PausedGate(s), LAMBDA s1 :
    Then(Check(FirstError(<<validate_contract_initialized(s1),
                            validate_address_comprehensive(from),
                            validate_amount_range(amount)>>), s1), LAMBDA s2 :
    Then(require_auth(s2, authed), LAMBDA s3 :
         Ok([s3 EXCEPT !.balances[from] = @ - amount, !.supply = @ - amount]))))

burn(s, from, amount, authed) ==
    Then(PausedGate(s), LAMBDA s1 :
    Then(Check(validate_burn_comprehensive(s1, from, amount), s1), LAMBDA s2 :
         Base_burn(s2, from, amount, authed)))

burn_from(s, lg, spender, from, amount, authed) ==
    Then(PausedGate(s), LAMBDA s1 :
    Then(Check(validate_burn_comprehensive(s1, from, amount), s1), LAMBDA s2 :
         Base_burn_from(s2, lg, spender, from, amount, authed)))

\* mutant of batch_loop: a pair that fails validation is skipped
RECURSIVE batch_loop_skip(_, _, _)
batch_loop_skip(s, recipients, i) ==
    IF i > Len(recipients) THEN Ok(s)
    ELSE LET account == recipients[i][1]
             amount == recipients[i][2]
         IN IF validate_mint_comprehensive(s, account, amount) # "Ok"
            THEN batch_loop_skip(s, recipients, i + 1)
            ELSE Then(Base_mint(s, account, amount), LAMBDA s2 :
                      batch_loop_skip(s2, recipients, i + 1))

\* the loop of batch_mint over recipients[i..], stopping at the first error
RECURSIVE batch_loop(_, _, _)
batch_loop(s, recipients, i) ==
    IF i > Len(recipients) THEN Ok(s)
    ELSE LET account == recipients[i][1]
             amount == recipients[i][2]
         IN Then(Check(validate_mint_comprehensive(s, account, amount), s), LAMBDA s1 :
            Then(Base_mint(s1, account, amount), LAMBDA s2 :
                 batch_loop(s2, recipients, i + 1)))

\* mints every pair from the i-th on without validating any
RECURSIVE mint_all(_, _, _)
mint_all(s, recipients, i) ==
    IF i > Len(recipients) THEN Ok(s)
    ELSE Then(Base_mint(s, recipients[i][1], recipients[i][2]), LAMBDA s1 :
              mint_all(s1, recipients, i + 1))

\* mutant of batch_mint: every pair is validated against the storage before
\* the batch, and the pairs are minted after that
batch_mint_validate_first(s, caller, recipients, authed) ==
    Then(PausedGate(s), LAMBDA s1 :
    Then(require_auth(s1, authed), LAMBDA s2 :
    Then(ensure_role(s2, caller, MINTER_ROLE), LAMBDA s3 :
    Then(Check(FirstError([i \in 1..Len(recipients) |->
                   validate_mint_comprehensive(s3, recipients[i][1], recipients[i][2])]), s3),
         LAMBDA s4 : mint_all(s4, recipients, 1)))))

batch_mint(s, caller, recipients, authed) ==
    Then(PausedGate(s), LAMBDA s1 :
    Then(require_auth(s1, authed), LAMBDA s2 :
    Then(ensure_role(s2, caller, MINTER_ROLE), LAMBDA s3 :
         batch_loop(s3, recipients, 1))))

\* mutant of pause: the Pauser role check is missing
pause_no_role_check(s, caller, authed) ==
    Then(require_auth(s, authed), LAMBDA s1 : pausable_pause(s1))

pause(s, caller, authed) ==
    Then(require_auth(s, authed), LAMBDA s1 :
    Then(ensure_role(s1, caller, PAUSER_ROLE), LAMBDA s2 :
         pausable_pause(s2)))

\* mutant of unpause: it is gated on the pause flag like the token operations
unpause_gated(s, caller, authed) ==
    Then(PausedGate(s), LAMBDA s0 :
    Then(require_auth(s0, authed), LAMBDA s1 :
    Then(ensure_role(s1, caller, PAUSER_ROLE), LAMBDA s2 :
         pausable_unpause(s2))))

unpause(s, caller, authed) ==
    Then(require_auth(s, authed), LAMBDA s1 :
    Then(ensure_role(s1, caller, PAUSER_ROLE), LAMBDA s2 :
         pausable_unpause(s2)))

\* mutant of approve: the amount is added to the allowance in force
approve_adds(s, lg, from, spender, amount, expiration_ledger, authed) ==
    Then(PausedGate(s), LAMBDA s1 :
         Base_approve(s1, lg, from, spender, Base_allowance(s1, lg, from, spender) + amount,
                      expiration_ledger, authed))

\* mutant of approve: the pause check is missing
approve_ungated(s, lg, from, spender, amount, expiration_ledger, authed) ==
    Base_approve(s, lg, from, spender, amount, expiration_ledger, authed)

\* mutant of approve: the amount goes through the guards the debiting entry
\* points apply (initialized, address, amount range)
approve_validated(s, lg, from, spender, amount, expiration_ledger, authed) ==
    Then(PausedGate(s), LAMBDA s1 :
    Then(Check(FirstError(<<validate_contract_initialized(s1),
                            validate_address_comprehensive(from),
                            validate_amount_range(amount)>>), s1), LAMBDA s2 :
         Base_approve(s2, lg, from, spender, amount, expiration_ledger, authed)))

approve(s, lg, from, spender, amount, expiration_ledger, authed) ==
    Then(PausedGate(s), LAMBDA s1 :
         Base_approve(s1, lg, from, spender, amount, expiration_ledger, authed))

----------------------------------------------------------------------------
(* Events.  An invocation publishes the events of the library calls it    *)
(* makes and those of its own env.events().publish calls, in the order of *)
(* the calls; Published gives the events of the whole invocation.         *)

\* env.events().publish(topics, data) of the contract
publish(topics, data) == [by |-> "contract", topics |-> topics, data |-> data]

\* the event a library call publishes after its write
emit(topics, data) == [by |-> "library", topics |-> topics, data |-> data]

Base_mint_events(to, amount) == <<emit(<<"mint", to>>, <<amount>>)>>
Base_transfer_events(from, to, amount) == <<emit(<<"transfer", from, to>>, <<amount>>)>>
Base_burn_events(from, amount) == <<emit(<<"burn", from>>, <<amount>>)>>
pausable_pause_events == <<emit(<<"paused">>, <<>>)>>
pausable_unpause_events == <<emit(<<"unpaused">>, <<>>)>>

\* the events of an invocation with result r that published evs on its way:
\* those of a failed invocation are discarded with its writes
Published(r, evs) == IF r.err = "Ok" THEN evs ELSE <<>>

mint_events(s, caller, to, amount, authed) ==
    Published(mint(s, caller, to, amount, authed),
              Base_mint_events(to, amount) \o <<publish(<<MINT_EVENT, to>>, <<amount>>)>>)

transfer_events(s, from, to, amount, authed) ==
    Published(transfer(s, from, to, amount, authed),
              Base_transfer_events(from, to, amount)
                  \o <<publish(<<TRANSFER_EVENT, from, to>>, <<amount>>)>>)

transfer_from_events(s, lg, spender, from, to, amount, authed) ==
    Published(transfer_from(s, lg, spender, from, to, amount, authed),
              Base_transfer_events(from, to, amount)
                  \o <<publish(<<TRANSFER_EVENT, from, to>>, <<amount>>)>>)

burn_events(s, from, amount, authed) ==
    Published(burn(s, from, amount, authed),
              Base_burn_events(from, amount) \o <<publish(<<BURN_EVENT, from>>, <<amount>>)>>)

burn_from_events(s, lg, spender, from, amount, authed) ==
    Published(burn_from(s, lg, spender, from, amount, authed),
              Base_burn_events(from, amount) \o <<publish(<<BURN_EVENT, from>>, <<amount>>)>>)

\* mutant of batch_loop_events: one event for the first entry only
batch_loop_events_first(recipients, i) ==
    IF i > Len(recipients) THEN <<>>
    ELSE Base_mint_events(recipients[i][1], recipients[i][2])
             \o <<publish(<<MINT_EVENT, recipients[i][1]>>, <<recipients[i][2]>>)>>

\* the events of the loop of batch_mint from entry i on
RECURSIVE batch_loop_events(_, _)
batch_loop_events(recipients, i) ==
    IF i > Len(recipients) THEN <<>>
    ELSE Base_mint_events(recipients[i][1], recipients[i][2])
             \o <<publish(<<MINT_EVENT, recipients[i][1]>>, <<recipients[i][2]>>)>>
             \o batch_loop_events(recipients, i + 1)

batch_mint_events(s, caller, recipients, authed) ==
    Published(batch_mint(s, caller, recipients, authed), batch_loop_events(recipients, 1))

pause_events(s, caller, authed) ==
    Published(pause(s, caller, authed),
              pausable_pause_events \o <<publish(<<PAUSE_EVENT>>, <<>>)>>)

unpause_events(s, caller, authed) ==
    Published(unpause(s, caller, authed),
              pausable_unpause_events \o <<publish(<<UNPAUSE_EVENT>>, <<>>)>>)

----------------------------------------------------------------------------
(* The host: one invocation is one transaction *)

\* storage after an invocation with result r: committed on Ok, rolled back
\* to the storage before the invocation on an error or panic
Commit(r) == IF r.err = "Ok" THEN r.store ELSE Store

\* the record of an invocation: entry point, error ("Ok" when none), the
\* value returned by a read-only entry point, and whether the invocation
\* had written to storage by the time it ended
Call(op, err, ret, wrote) == [op |-> op, err |-> err, ret |-> ret, wrote |-> wrote]

NoCall == Call("none", "Ok", 0, FALSE)

\* an invocation of a mutating entry point with result r, recorded as c
Invoke(r, c) ==
    LET after == Commit(r)
    IN /\ after # Store => steps < MaxSteps
       /\ metadata' = after.metadata
       /\ admin' = after.admin
       /\ roles' = after.roles
       /\ is_paused' = after.is_paused
       /\ balances' = after.balances
       /\ allowances' = after.allowances
       /\ supply' = after.supply
       /\ steps' = IF after # Store THEN steps + 1 ELSE steps
       /\ last' = c
       /\ UNCHANGED ledger

\* an invocation of a read-only entry point
Query(c) ==
    /\ last' = c
    /\ UNCHANGED <<metadata, admin, roles, is_paused, balances, allowances, supply, ledger, steps>>

----------------------------------------------------------------------------
(* Actions: one per entry point *)

Initialize(a, pauser, upgrader, minter, guarded) ==
    LET r == initialize(Store, a, pauser, upgrader, minter, guarded)
    IN Invoke(r, Call("initialize", r.err, 0, r.store # Store))

Mint(caller, to, amount, authed) ==
    LET r == mint(Store, caller, to, amount, authed)
    IN Invoke(r, Call("mint", r.err, 0, r.store # Store))

Transfer(from, to, amount, authed) ==
    LET r == transfer(Store, from, to, amount, authed)
    IN Invoke(r, Call("transfer", r.err, 0, r.store # Store))

TransferFrom(spender, from, to, amount, authed) ==
    LET r == transfer_from(Store, ledger, spender, from, to, amount, authed)
    IN Invoke(r, Call("transfer_from", r.err, 0, r.store # Store))

Burn(from, amount, authed) ==
    LET r == burn(Store, from, amount, authed)
    IN Invoke(r, Call("burn", r.err, 0, r.store # Store))

BurnFrom(spender, from, amount, authed) ==
    LET r == burn_from(Store, ledger, spender, from, amount, authed)
    IN Invoke(r, Call("burn_from", r.err, 0, r.store # Store))

BatchMint(caller, recipients, authed) ==
    LET r == batch_mint(Store, caller, recipients, authed)
    IN Invoke(r, Call("batch_mint", r.err, 0, r.store # Store))

Pause(caller, authed) ==
    LET r == pause(Store, caller, authed)
    IN Invoke(r, Call("pause", r.err, 0, r.store # Store))

Unpause(caller, authed) ==
    LET r == unpause(Store, caller, authed)
    IN Invoke(r, Call("unpause", r.err, 0, r.store # Store))

Approve(from, spender, amount, expiration_ledger, authed) ==
    LET r == approve(Store, ledger, from, spender, amount, expiration_ledger, authed)
    IN Invoke(r, Call("approve", r.err, 0, r.store # Store))

(* contract.rs: the read-only entry points, as [err, val] *)

balance(s, address) == [err |-> "Ok", val |-> Base_balance(s, address)]

allowance(s, lg, from, spender) == [err |-> "Ok", val |-> Base_allowance(s, lg, from, spender)]

\* mutant of total_supply: the query is refused while the contract is paused
total_supply_gated(s) ==
    IF paused(s) THEN [err |-> "Paused", val |-> 0]
    ELSE [err |-> "Ok", val |-> Base_total_supply(s)]

total_supply(s) == [err |-> "Ok", val |-> Base_total_supply(s)]

name(s) == LET m == Base_get_metadata(s) IN [err |-> m.err, val |-> m.val.name]

symbol(s) == LET m == Base_get_metadata(s) IN [err |-> m.err, val |-> m.val.symbol]

decimals(s) == LET m == Base_get_metadata(s) IN [err |-> m.err, val |-> m.val.decimals]

is_paused_query(s) == [err |-> "Ok", val |-> paused(s)]

has_role_query(s, role, address) == [err |-> "Ok", val |-> has_role(s, address, role)]

get_admin_query(s) == [err |-> "Ok", val |-> get_admin(s)]

get_token_info(s) ==
    LET m == Base_get_metadata(s)
    IN [err |-> m.err,
        val |-> <<m.val.name, m.val.symbol, m.val.decimals, Base_total_supply(s), paused(s)>>]

QBalance(address) == LET q == balance(Store, address) IN Query(Call("balance", q.err, q.val, FALSE))

QAllowance(from, spender) ==
    LET q == allowance(Store, ledger, from, spender) IN Query(Call("allowance", q.err, q.val, FALSE))

QTotalSupply == LET q == total_supply(Store) IN Query(Call("total_supply", q.err, q.val, FALSE))

QName == LET q == name(Store) IN Query(Call("name", q.err, q.val, FALSE))

QSymbol == LET q == symbol(Store) IN Query(Call("symbol", q.err, q.val, FALSE))

QDecimals == LET q == decimals(Store) IN Query(Call("decimals", q.err, q.val, FALSE))

QIsPaused == LET q == is_paused_query(Store) IN Query(Call("is_paused", q.err, q.val, FALSE))

QHasRole(role, address) ==
    LET q == has_role_query(Store, role, address) IN Query(Call("has_role", q.err, q.val, FALSE))

QGetAdmin == LET q == get_admin_query(Store) IN Query(Call("get_admin", q.err, q.val, FALSE))

QGetTokenInfo == LET q == get_token_info(Store) IN Query(Call("get_token_info", q.err, q.val, FALSE))

(* the host closes a ledger *)
AdvanceLedger ==
    /\ ledger < MaxLedger
    /\ ledger' = ledger + 1
    /\ last' = NoCall
    /\ UNCHANGED <<metadata, admin, roles, is_paused, balances, allowances, supply, steps>>

----------------------------------------------------------------------------

Init ==
    /\ metadata = NoMetadata
    /\ admin = NoAdmin
    /\ roles = [r \in Roles |-> {}]
    /\ is_paused = FALSE
    /\ balances = [a \in Addr |-> 0]
    /\ allowances = [p \in Addr \X Addr |-> [amount |-> 0, live_until_ledger |-> 0]]
    /\ supply = 0
    /\ ledger = 0
    /\ steps = 0
    /\ last = NoCall

(* The arguments the entry points are invoked with *)

InitializeArgs == InitArgs \X BOOLEAN
MintArgs == {x \in Addr \X Holders \X Amounts \X BOOLEAN : x[4] \/ x[3] = UnauthAmount}
TransferArgs == {x \in Holders \X Holders \X Amounts \X BOOLEAN : x[4] \/ x[3] = UnauthAmount}
TransferFromArgs ==
    {x \in Spenders \X Owners \X Holders \X Amounts \X BOOLEAN : x[5] \/ x[4] = UnauthAmount}
BurnArgs == {x \in Holders \X Amounts \X BOOLEAN : x[3] \/ x[2] = UnauthAmount}
BurnFromArgs == {x \in Spenders \X Owners \X Amounts \X BOOLEAN : x[4] \/ x[3] = UnauthAmount}
BatchMintArgs == {x \in Addr \X Batches \X BOOLEAN : x[3] \/ x[2] = <<>>}
PauseArgs == Addr \X BOOLEAN
ApproveArgs ==
    {x \in Owners \X Spenders \X ApproveAmounts \X Expirations \X BOOLEAN :
        x[5] \/ x[3] = MIN_AMOUNT + 1}

Next ==
    \/ \E x \in InitializeArgs : Initialize(x[1][1], x[1][2], x[1][3], x[1][4], x[2])
    \/ \E x \in MintArgs : Mint(x[1], x[2], x[3], x[4])
    \/ \E x \in TransferArgs : Transfer(x[1], x[2], x[3], x[4])
    \/ \E x \in TransferFromArgs : TransferFrom(x[1], x[2], x[3], x[4], x[5])
    \/ \E x \in BurnArgs : Burn(x[1], x[2], x[3])
    \/ \E x \in BurnFromArgs : BurnFrom(x[1], x[2], x[3], x[4])
    \/ \E x \in BatchMintArgs : BatchMint(x[1], x[2], x[3])
    \/ \E x \in PauseArgs : Pause(x[1], x[2])
    \/ \E x \in PauseArgs : Unpause(x[1], x[2])
    \/ \E x \in ApproveArgs : Approve(x[1], x[2], x[3], x[4], x[5])
    \/ \E address \in Holders : QBalance(address)
    \/ \E from \in Owners, spender \in Spenders : QAllowance(from, spender)
    \/ QTotalSupply
    \/ QName
    \/ QSymbol
    \/ QDecimals
    \/ QIsPaused
    \/ \E role \in Roles, address \in Addr : QHasRole(role, address)
    \/ QGetAdmin
    \/ QGetTokenInfo
    \/ AdvanceLedger

Spec == Init /\ [][Next]_vars

----------------------------------------------------------------------------
(* The contract close to its supply cap.  The cap is MAX_SUPPLY and one    *)
(* mint moves at most MAX_SINGLE_OPERATION, so the cap is FullMints mints  *)
(* away from construction.  This specification starts in the storage that  *)
(* initialize followed by FullMints - 1 mints of MAX_SINGLE_OPERATION      *)
(* leaves, computed with the entry points themselves, and invokes the      *)
(* entry points that move the supply with amounts around both limits.      *)

FullMints == MAX_SUPPLY \div MAX_SINGLE_OPERATION

Fresh == [metadata |-> NoMetadata, admin |-> NoAdmin, roles |-> [r \in Roles |-> {}],
          is_paused |-> FALSE, balances |-> [a \in Addr |-> 0],
          allowances |-> [p \in Addr \X Addr |-> [amount |-> 0, live_until_ledger |-> 0]],
          supply |-> 0]

\* the storage after k successful mints of MAX_SINGLE_OPERATION to "GA1"
RECURSIVE MintTimes(_, _, _)
MintTimes(s, caller, k) ==
    IF k = 0 THEN s
    ELSE MintTimes(mint(s, caller, "GA1", MAX_SINGLE_OPERATION, TRUE).store, caller, k - 1)

CapStart ==
    LET a == CHOOSE x \in InitArgs : TRUE
    IN MintTimes(initialize(Fresh, a[1], a[2], a[3], a[4], TRUE).store, a[4], FullMints - 1)

InitCap ==
    /\ metadata = CapStart.metadata
    /\ admin = CapStart.admin
    /\ roles = CapStart.roles
    /\ is_paused = CapStart.is_paused
    /\ balances = CapStart.balances
    /\ allowances = CapStart.allowances
    /\ supply = CapStart.supply
    /\ ledger = 0
    /\ steps = 0
    /\ last = NoCall

CapAmounts == {MIN_AMOUNT - 1, MIN_AMOUNT, MAX_SINGLE_OPERATION - MIN_AMOUNT,
               MAX_SINGLE_OPERATION, MAX_SINGLE_OPERATION + 1}
CapBatchEntries == {<<"GA2", MIN_AMOUNT>>, <<"GA1", MAX_SINGLE_OPERATION - MIN_AMOUNT>>}
CapBatches == UNION {[1..n -> CapBatchEntries] : n \in 1..MaxBatch}

NextCap ==
    \/ \E caller \in Addr, to \in Holders, amount \in CapAmounts : Mint(caller, to, amount, TRUE)
    \/ \E caller \in Addr, recipients \in CapBatches : BatchMint(caller, recipients, TRUE)
    \/ \E from \in Holders, amount \in CapAmounts : Burn(from, amount, TRUE)
    \/ \E from \in Holders, to \in Holders, amount \in CapAmounts : Transfer(from, to, amount, TRUE)
    \/ \E caller \in Addr : Pause(caller, TRUE)
    \/ \E caller \in Addr : Unpause(caller, TRUE)
    \/ QTotalSupply

SpecCap == InitCap /\ [][NextCap]_vars

----------------------------------------------------------------------------
(* The contract in service.  This specification starts in the storage that *)
(* initialize leaves on the constructed contract and invokes the entry     *)
(* points that holders, spenders, the minter and the pauser use, so that   *)
(* MaxSteps invocations after initialize are explored.                     *)

LiveStart ==
    LET a == CHOOSE x \in InitArgs : TRUE
    IN initialize(Fresh, a[1], a[2], a[3], a[4], TRUE).store

InitLive ==
    /\ metadata = LiveStart.metadata
    /\ admin = LiveStart.admin
    /\ roles = LiveStart.roles
    /\ is_paused = LiveStart.is_paused
    /\ balances = LiveStart.balances
    /\ allowances = LiveStart.allowances
    /\ supply = LiveStart.supply
    /\ ledger = 0
    /\ steps = 0
    /\ last = NoCall

LiveAmounts == {MIN_AMOUNT - 1, MIN_AMOUNT}

NextLive ==
    \/ \E caller \in Addr, to \in Holders, amount \in LiveAmounts : Mint(caller, to, amount, TRUE)
    \/ \E from \in Holders, to \in Holders, amount \in LiveAmounts, authed \in BOOLEAN :
          Transfer(from, to, amount, authed)
    \/ \E spender \in Spenders, from \in Owners, to \in Holders, authed \in BOOLEAN :
          TransferFrom(spender, from, to, MIN_AMOUNT, authed)
    \/ \E from \in Holders, amount \in LiveAmounts, authed \in BOOLEAN : Burn(from, amount, authed)
    \/ \E spender \in Spenders, from \in Owners, authed \in BOOLEAN :
          BurnFrom(spender, from, MIN_AMOUNT, authed)
    \/ \E from \in Owners, spender \in Spenders, amount \in ApproveAmounts,
          expiration_ledger \in Expirations, authed \in BOOLEAN :
          Approve(from, spender, amount, expiration_ledger, authed)
    \/ \E caller \in Addr : Pause(caller, TRUE)
    \/ \E caller \in Addr : Unpause(caller, TRUE)
    \/ \E from \in Owners, spender \in Spenders : QAllowance(from, spender)
    \/ AdvanceLedger

SpecLive == InitLive /\ [][NextLive]_vars

----------------------------------------------------------------------------
(* From construction, entry points only.  This specification starts, like  *)
(* Spec, in the constructed contract, and invokes the state-changing entry *)
(* points with one valid amount, authenticated or not, and no query.       *)

NextStart ==
    \/ \E x \in InitializeArgs : Initialize(x[1][1], x[1][2], x[1][3], x[1][4], x[2])
    \/ \E caller \in Addr, to \in Holders, authed \in BOOLEAN :
          Mint(caller, to, MIN_AMOUNT, authed)
    \/ \E from \in Holders, to \in Holders, authed \in BOOLEAN :
          Transfer(from, to, MIN_AMOUNT, authed)
    \/ \E from \in Holders, authed \in BOOLEAN : Burn(from, MIN_AMOUNT, authed)
    \/ \E from \in Owners, spender \in Spenders, amount \in ApproveAmounts,
          expiration_ledger \in Expirations, authed \in BOOLEAN :
          Approve(from, spender, amount, expiration_ledger, authed)
    \/ \E x \in PauseArgs : Pause(x[1], x[2])
    \/ \E x \in PauseArgs : Unpause(x[1], x[2])
    \/ AdvanceLedger

SpecStart == Init /\ [][NextStart]_vars

----------------------------------------------------------------------------
(* Odd amounts.  This specification starts, like SpecLive, in the storage  *)
(* that initialize leaves, and mints amounts that are not multiples of     *)
(* MIN_AMOUNT, so that debits of MIN_AMOUNT leave balances below it.       *)

DustAmounts == {MIN_AMOUNT, MIN_AMOUNT + 3}

NextDust ==
    \/ \E caller \in roles[MINTER_ROLE], to \in Holders, amount \in DustAmounts :
          Mint(caller, to, amount, TRUE)
    \/ \E from \in Holders, to \in Holders, amount \in LiveAmounts :
          Transfer(from, to, amount, TRUE)
    \/ \E spender \in Spenders, from \in Owners, to \in Holders :
          TransferFrom(spender, from, to, MIN_AMOUNT, TRUE)
    \/ \E from \in Holders, amount \in LiveAmounts : Burn(from, amount, TRUE)
    \/ \E spender \in Spenders, from \in Owners : BurnFrom(spender, from, MIN_AMOUNT, TRUE)
    \/ \E from \in Owners, spender \in Spenders :
          Approve(from, spender, MIN_AMOUNT + 1, MaxLedger, TRUE)
    \/ \E caller \in roles[PAUSER_ROLE] : Pause(caller, TRUE)
    \/ \E caller \in roles[PAUSER_ROLE] : Unpause(caller, TRUE)

SpecDust == InitLive /\ [][NextDust]_vars

----------------------------------------------------------------------------
(* Spending.  This specification starts, like SpecLive, in the storage     *)
(* that initialize leaves, and lets a spender move part of an allowance or *)
(* all of it, before and after the ledger passes its expiration.           *)

SpendAmounts == {MIN_AMOUNT, MIN_AMOUNT + 1}

NextSpend ==
    \/ \E caller \in roles[MINTER_ROLE], to \in Holders, amount \in SpendAmounts :
          Mint(caller, to, amount, TRUE)
    \/ \E from \in Holders, to \in Holders, authed \in BOOLEAN :
          Transfer(from, to, MIN_AMOUNT, authed)
    \/ \E spender \in Spenders, from \in Owners, to \in Holders, amount \in SpendAmounts,
          authed \in BOOLEAN :
          TransferFrom(spender, from, to, amount, authed)
    \/ \E from \in Holders, authed \in BOOLEAN : Burn(from, MIN_AMOUNT, authed)
    \/ \E spender \in Spenders, from \in Owners, amount \in SpendAmounts, authed \in BOOLEAN :
          BurnFrom(spender, from, amount, authed)
    \/ \E from \in Owners, spender \in Spenders, amount \in ApproveAmounts,
          expiration_ledger \in Expirations, authed \in BOOLEAN :
          Approve(from, spender, amount, expiration_ledger, authed)
    \/ \E caller \in roles[PAUSER_ROLE] : Pause(caller, TRUE)
    \/ \E caller \in roles[PAUSER_ROLE] : Unpause(caller, TRUE)
    \/ \E from \in Owners, spender \in Spenders : QAllowance(from, spender)
    \/ AdvanceLedger

SpecSpend == InitLive /\ [][NextSpend]_vars

----------------------------------------------------------------------------
(* Properties *)

RECURSIVE SumBalances(_, _)
SumBalances(b, S) ==
    IF S = {} THEN 0
    ELSE LET a == CHOOSE x \in S : TRUE IN b[a] + SumBalances(b, S \ {a})

Initialized == metadata.set /\ metadata.name # ""

GatedOps == {"mint", "batch_mint", "transfer", "transfer_from", "burn", "burn_from", "approve"}

\* C1: in every reachable state the total supply equals the sum of all
\* account balances.
C1_SupplyIsSumOfBalances == supply = SumBalances(balances, Addr)

\* a burn has committed and tokens remain in circulation
C1_Witness ==
    /\ last.op = "burn" /\ last.err = "Ok"
    /\ supply > 0 /\ supply = SumBalances(balances, Addr)

\* C2: in every reachable state no account has a negative balance.
C2_BalancesNonNegative == \A a \in Addr : balances[a] >= 0

\* a burn has emptied an account
C2_Witness ==
    /\ last.op = "burn" /\ last.err = "Ok"
    /\ \E a \in Addr : balances[a] = 0 /\ supply = SumBalances(balances, Addr)
    /\ Initialized

\* C4: while the contract is paused, every invocation of mint, batch_mint,
\* transfer, transfer_from, burn, burn_from and approve ends with the error
\* Paused and changes nothing.
C4_PausedBlocksMutations ==
    [][(is_paused /\ last'.op \in GatedOps)
          => (last'.err = "Paused" /\ ~last'.wrote /\ UNCHANGED storeVars)]_vars

\* an approve was refused on a paused contract
C4_Witness == is_paused /\ last.op = "approve" /\ last.err = "Paused"

(* Every invocation of a mutating entry point that can be made in the      *)
(* current state: entry point, authenticating address, whether it carries  *)
(* that address's authorization, and the result.                           *)
Inv(op, caller, authed, res) == [op |-> op, caller |-> caller, authed |-> authed, res |-> res]

Invocations ==
    {Inv("initialize", NoAddr, TRUE,
         initialize(Store, x[1][1], x[1][2], x[1][3], x[1][4], x[2])) : x \in InitializeArgs}
    \cup {Inv("mint", x[1], x[4], mint(Store, x[1], x[2], x[3], x[4])) : x \in MintArgs}
    \cup {Inv("transfer", x[1], x[4], transfer(Store, x[1], x[2], x[3], x[4])) : x \in TransferArgs}
    \cup {Inv("transfer_from", x[1], x[5],
              transfer_from(Store, ledger, x[1], x[2], x[3], x[4], x[5])) : x \in TransferFromArgs}
    \cup {Inv("burn", x[1], x[3], burn(Store, x[1], x[2], x[3])) : x \in BurnArgs}
    \cup {Inv("burn_from", x[1], x[4],
              burn_from(Store, ledger, x[1], x[2], x[3], x[4])) : x \in BurnFromArgs}
    \cup {Inv("batch_mint", x[1], x[3], batch_mint(Store, x[1], x[2], x[3])) : x \in BatchMintArgs}
    \cup {Inv("pause", x[1], x[2], pause(Store, x[1], x[2])) : x \in PauseArgs}
    \cup {Inv("unpause", x[1], x[2], unpause(Store, x[1], x[2])) : x \in PauseArgs}
    \cup {Inv("approve", x[1], x[5],
              approve(Store, ledger, x[1], x[2], x[3], x[4], x[5])) : x \in ApproveArgs}

\* C3: an invocation that ends with an error leaves balances, allowances,
\* total supply, pause flag, role grants, admin and metadata as they were.
\* Every entry point but batch_mint has written nothing when it fails: the
\* storage it fails in is the storage it was invoked in; a batch_mint that
\* fails at a later pair has credited the pairs before it, and those writes
\* are discarded with the invocation.
C3_FailedCallChangesNothing ==
    /\ [](\A i \in Invocations :
            (i.res.err # "Ok" /\ i.op # "batch_mint") => i.res.store = Store)
    /\ [][last'.err # "Ok" => UNCHANGED storeVars]_vars

\* an invocation failed after it had already written to storage
C3_Witness == last.err # "Ok" /\ last.wrote

ReadOps == {"balance", "allowance", "total_supply", "name", "symbol", "decimals",
            "is_paused", "has_role", "get_admin"}
MetadataOps == {"name", "symbol", "decimals"}

\* C5 as stated: the read-only queries balance, allowance, total_supply,
\* name, symbol, decimals, is_paused, has_role_* and get_admin succeed in
\* every state, paused or not, and never change any state.
C5_QueriesAlwaysSucceed ==
    [][last'.op \in ReadOps => (last'.err = "Ok" /\ UNCHANGED storeVars)]_vars

\* C5 amended: the read-only queries never change any state; on an
\* initialized contract they succeed, paused or not; before initialize,
\* name, symbol and decimals fail because the metadata is unset and the
\* other queries succeed.
C5_QueriesSucceedOnceInitialized ==
    [][last'.op \in ReadOps =>
          /\ UNCHANGED storeVars
          /\ (Initialized \/ last'.op \notin MetadataOps) => last'.err = "Ok"
          /\ (~Initialized /\ last'.op \in MetadataOps) => last'.err = "UnsetMetadata"]_vars

\* the token name was read from a paused contract
C5_Witness == is_paused /\ last.op = "name" /\ last.err = "Ok" /\ last.ret = NAME

NonMinters == Addr \ roles[MINTER_ROLE]

\* C6 as stated: an authorized mint or batch_mint by an address that does
\* not hold the Minter role fails with Unauthorized and changes nothing.
C6_NonMinterUnauthorized ==
    /\ \A caller \in NonMinters, to \in Addr, amount \in Amounts :
          LET r == mint(Store, caller, to, amount, TRUE)
          IN r.err = "Unauthorized" /\ r.store = Store
    /\ \A caller \in NonMinters, recipients \in Batches :
          LET r == batch_mint(Store, caller, recipients, TRUE)
          IN r.err = "Unauthorized" /\ r.store = Store

\* C6 amended: a mint or batch_mint by an address that does not hold the
\* Minter role changes nothing and fails, with Unauthorized on an unpaused
\* contract and with Paused on a paused one; no invocation other than a
\* mint or batch_mint authorized by a holder of the Minter role increases
\* the total supply.
C6_OnlyMinterMints ==
    /\ \A caller \in NonMinters, to \in Addr, amount \in Amounts :
          LET r == mint(Store, caller, to, amount, TRUE)
          IN r.err = (IF is_paused THEN "Paused" ELSE "Unauthorized") /\ r.store = Store
    /\ \A caller \in NonMinters, recipients \in Batches :
          LET r == batch_mint(Store, caller, recipients, TRUE)
          IN r.err = (IF is_paused THEN "Paused" ELSE "Unauthorized") /\ r.store = Store
    /\ \A i \in Invocations :
          Commit(i.res).supply > supply =>
              /\ i.op \in {"mint", "batch_mint"}
              /\ i.caller \in roles[MINTER_ROLE]
              /\ i.authed

\* a mint by a non-minter was refused on an initialized, unpaused contract
C6_Witness ==
    /\ Initialized /\ ~is_paused /\ NonMinters # {}
    /\ last.op = "mint" /\ last.err = "Unauthorized"

NonPausers == Addr \ roles[PAUSER_ROLE]

\* C7: pause and unpause by an address that does not hold the Pauser role
\* fail with Unauthorized and leave the flag unchanged, and the pause flag
\* changes only in a pause or unpause authorized by the holder of the
\* Pauser role.
C7_OnlyPauserTogglesPause ==
    /\ \A caller \in NonPausers :
          /\ LET r == pause(Store, caller, TRUE)
             IN r.err = "Unauthorized" /\ r.store = Store
          /\ LET r == unpause(Store, caller, TRUE)
             IN r.err = "Unauthorized" /\ r.store = Store
    /\ \A i \in Invocations :
          Commit(i.res).is_paused # is_paused =>
              /\ i.op \in {"pause", "unpause"}
              /\ i.caller \in roles[PAUSER_ROLE]
              /\ i.authed

\* the admin, the minter and the upgrader are not the pauser, and an
\* unpause by one of them was refused on a paused contract
C7_Witness ==
    /\ is_paused /\ last.op = "unpause" /\ last.err = "Unauthorized"
    /\ admin \in NonPausers
    /\ roles[MINTER_ROLE] \subseteq NonPausers
    /\ roles[UPGRADER_ROLE] \subseteq NonPausers

\* the guards of a (address, amount) pair that do not depend on the state
PairError(pair) ==
    FirstError(<<validate_address_comprehensive(pair[1]), validate_amount_range(pair[2])>>)

RECURSIVE SumAmounts(_, _)
SumAmounts(recipients, n) ==
    IF n = 0 THEN 0 ELSE recipients[n][2] + SumAmounts(recipients, n - 1)

\* C8: when the k-th pair of a batch_mint by the minter on an initialized,
\* unpaused contract is the first to fail validation, the invocation
\* returns the error of that pair, and balances and total supply are as
\* before the invocation.
C8_BatchMintAllOrNothing ==
    (Initialized /\ ~is_paused) =>
        \A caller \in roles[MINTER_ROLE], recipients \in Batches, k \in 1..MaxBatch :
            ( /\ k <= Len(recipients)
              /\ PairError(recipients[k]) # "Ok"
              /\ \A j \in 1..(k-1) : PairError(recipients[j]) = "Ok"
              /\ supply + SumAmounts(recipients, k - 1) <= MAX_SUPPLY )
            => LET r == batch_mint(Store, caller, recipients, TRUE)
               IN /\ r.err = PairError(recipients[k])
                  /\ Commit(r).balances = balances
                  /\ Commit(r).supply = supply

\* a batch_mint failed on a later pair after it had minted an earlier one
C8_Witness ==
    /\ last.op = "batch_mint" /\ last.err = "InvalidAmount" /\ last.wrote
    /\ supply = 0 /\ \A a \in Addr : balances[a] = 0

\* C9: on an initialized, unpaused contract every mint by the minter,
\* every transfer between two different accounts and every burn of an
\* amount below 5 fails with InvalidAmount and changes nothing.
C9_BelowMinimumRejected ==
    (Initialized /\ ~is_paused) =>
        \A amount \in {m \in Amounts : m < 5} :
            /\ \A caller \in roles[MINTER_ROLE], to \in Addr :
                  LET r == mint(Store, caller, to, amount, TRUE)
                  IN r.err = "InvalidAmount" /\ r.store = Store
            /\ \A from \in Addr : \A to \in Addr \ {from}, authed \in BOOLEAN :
                  LET r == transfer(Store, from, to, amount, authed)
                  IN r.err = "InvalidAmount" /\ r.store = Store
            /\ \A from \in Addr, authed \in BOOLEAN :
                  LET r == burn(Store, from, amount, authed)
                  IN r.err = "InvalidAmount" /\ r.store = Store

\* a transfer of less than 5 out of a funded account was refused
C9_Witness ==
    /\ Initialized /\ ~is_paused /\ supply >= MIN_AMOUNT
    /\ last.op = "transfer" /\ last.err = "InvalidAmount"

\* C10 as stated: on an initialized, unpaused contract mint(minter, user, 1)
\* succeeds and raises the balance of user by 1, and burn(user, 1) by a
\* holder of at least 1 succeeds and lowers balance and total supply by 1.
C10_AmountOneWorks ==
    (Initialized /\ ~is_paused) =>
        /\ \A caller \in roles[MINTER_ROLE], user \in Addr :
              LET r == mint(Store, caller, user, 1, TRUE)
              IN r.err = "Ok" /\ Commit(r).balances[user] = balances[user] + 1
        /\ \A user \in Addr :
              balances[user] >= 1 =>
                  LET r == burn(Store, user, 1, TRUE)
                  IN /\ r.err = "Ok"
                     /\ Commit(r).balances[user] = balances[user] - 1
                     /\ Commit(r).supply = supply - 1

\* C11 as stated: on an initialized, unpaused contract every mint by the
\* minter with total_supply + amount > MAX_SUPPLY fails with
\* ExceedsMaxSupply and changes nothing.
C11_OverCapIsExceedsMaxSupply ==
    (Initialized /\ ~is_paused) =>
        \A caller \in roles[MINTER_ROLE], to \in Addr, amount \in CapAmounts :
            supply + amount > MAX_SUPPLY =>
                LET r == mint(Store, caller, to, amount, TRUE)
                IN r.err = "ExceedsMaxSupply" /\ r.store = Store

\* C11 amended: on an initialized, unpaused contract every mint by the
\* minter of an amount between MIN_AMOUNT and MAX_SINGLE_OPERATION with
\* total_supply + amount > MAX_SUPPLY fails with ExceedsMaxSupply; an amount
\* below MIN_AMOUNT fails with InvalidAmount and one above
\* MAX_SINGLE_OPERATION with AmountTooLarge, whatever the supply; in each
\* case nothing changes.
C11_OverCapRejected ==
    (Initialized /\ ~is_paused) =>
        \A caller \in roles[MINTER_ROLE], to \in Addr, amount \in CapAmounts :
            supply + amount > MAX_SUPPLY =>
                LET r == mint(Store, caller, to, amount, TRUE)
                IN /\ r.store = Store
                   /\ r.err = IF amount < MIN_AMOUNT THEN "InvalidAmount"
                              ELSE IF amount > MAX_SINGLE_OPERATION THEN "AmountTooLarge"
                              ELSE "ExceedsMaxSupply"

\* the supply stands at the cap and a further mint was refused
C11_Witness ==
    /\ Initialized /\ ~is_paused /\ supply = MAX_SUPPLY
    /\ last.op = "mint" /\ last.err = "ExceedsMaxSupply"

\* amounts on both sides of every limit of validate_amount_range
AnyAmounts == Amounts \cup {MAX_SINGLE_OPERATION, MAX_SINGLE_OPERATION + 1}

\* C12: on an initialized, unpaused contract every transfer and every
\* transfer_from with from == to fails with SelfTransfer, whatever the
\* amount, the balance of the account, the spender and the authorization,
\* and changes nothing.
C12_SelfTransferRejected ==
    (Initialized /\ ~is_paused) =>
        \A a \in Addr, amount \in AnyAmounts, authed \in BOOLEAN :
            /\ LET r == transfer(Store, a, a, amount, authed)
               IN r.err = "SelfTransfer" /\ r.store = Store
            /\ \A spender \in Addr :
                  LET r == transfer_from(Store, ledger, spender, a, a, amount, authed)
                  IN r.err = "SelfTransfer" /\ r.store = Store

\* every holder could have paid the amount, and a transfer to oneself was
\* refused
C12_Witness ==
    /\ Initialized /\ ~is_paused
    /\ \A a \in Holders : balances[a] >= MIN_AMOUNT
    /\ last.op = "transfer" /\ last.err = "SelfTransfer"

\* a transfer out of from that passes the guards of transfer
ValidTransfer(from, to, amount) ==
    /\ Initialized /\ ~is_paused
    /\ from # to
    /\ amount >= MIN_AMOUNT /\ amount <= MAX_SINGLE_OPERATION
    /\ balances[from] >= amount

\* a burn out of from that passes the guards of burn
ValidBurn(from, amount) ==
    /\ Initialized /\ ~is_paused
    /\ amount >= MIN_AMOUNT /\ amount <= MAX_SINGLE_OPERATION
    /\ balances[from] >= amount

\* the result r of a transfer_from or burn_from of amount by spender out of
\* from obeys the allowance rule, the allowance being the stored amount;
\* valid says the call passes every other guard
AllowanceRule(r, spender, from, amount, valid) ==
    LET al == allowances[<<from, spender>>].amount
    IN /\ r.err = "Ok" =>
             /\ al >= amount
             /\ r.store.allowances[<<from, spender>>].amount = al - amount
             /\ r.store.balances[from] = balances[from] - amount
       /\ al < amount => (r.err # "Ok" /\ r.store = Store)
       /\ (valid /\ al < amount) => r.err = "InsufficientAllowance"

\* the amounts a spend is tried with: none, too little, and the amounts
\* that are approved or one less
SpendTries == Amounts \cup SpendAmounts

\* C13 as stated: transfer_from and burn_from succeed only when the
\* allowance is at least amount, a success lowers the allowance by exactly
\* amount, and a call with a smaller allowance fails with
\* InsufficientAllowance and changes nothing; no allowance is negative.
C13_SmallAllowanceIsInsufficientAllowance ==
    /\ \A p \in Addr \X Addr : allowances[p].amount >= 0
    /\ \A spender \in Addr, from \in Addr, amount \in SpendTries, authed \in BOOLEAN :
          LET al == allowances[<<from, spender>>].amount
          IN /\ \A to \in Addr :
                   LET r == transfer_from(Store, ledger, spender, from, to, amount, authed)
                   IN /\ AllowanceRule(r, spender, from, amount, FALSE)
                      /\ al < amount => r.err = "InsufficientAllowance"
             /\ LET r == burn_from(Store, ledger, spender, from, amount, authed)
                IN /\ AllowanceRule(r, spender, from, amount, FALSE)
                   /\ al < amount => r.err = "InsufficientAllowance"

\* C13 amended: transfer_from and burn_from succeed only when the stored
\* allowance is at least amount; a success lowers the allowance and the
\* balance of from by exactly amount; a call with a smaller allowance fails
\* and has written nothing, with InsufficientAllowance when it passes every
\* other guard (initialized, unpaused, from # to, amount in range, balance
\* sufficient, spender authenticated) and with the error of that guard
\* otherwise; no allowance is negative.
C13_AllowanceBoundsSpending ==
    /\ \A p \in Addr \X Addr : allowances[p].amount >= 0
    /\ \A spender \in Addr, from \in Addr, amount \in SpendTries, authed \in BOOLEAN :
          /\ \A to \in Addr :
                AllowanceRule(transfer_from(Store, ledger, spender, from, to, amount, authed),
                              spender, from, amount, authed /\ ValidTransfer(from, to, amount))
          /\ AllowanceRule(burn_from(Store, ledger, spender, from, amount, authed),
                           spender, from, amount, authed /\ ValidBurn(from, amount))

\* a spender has moved part of what was approved and the rest of the
\* allowance remains, and the owner still holds as much as that rest, so
\* that a further spend of exactly the allowance is in reach
C13_Witness ==
    /\ last.op = "transfer_from" /\ last.err = "Ok"
    /\ \E from \in Owners, spender \in Spenders :
          /\ allowances[<<from, spender>>].amount = (MIN_AMOUNT + 1) - MIN_AMOUNT
          /\ balances[from] = (MIN_AMOUNT + 1) - MIN_AMOUNT
          /\ \E to \in Holders \ {from} : balances[to] = MIN_AMOUNT

(* Every invocation that moves tokens or sets an allowance, between any    *)
(* addresses, with and without the authorization it asks for.  The caller  *)
(* of a record is the address whose require_auth the entry point calls.    *)
TokenInvocations ==
    {Inv("transfer", from, authed, transfer(Store, from, to, amount, authed)) :
        from \in Addr, to \in Addr, amount \in LiveAmounts \cup SpendAmounts, authed \in BOOLEAN}
    \cup {Inv("transfer_from", spender, authed,
              transfer_from(Store, ledger, spender, from[1], from[2], amount, authed)) :
             spender \in Addr, from \in Addr \X Addr, amount \in LiveAmounts \cup SpendAmounts, authed \in BOOLEAN}
    \cup {Inv("burn", from, authed, burn(Store, from, amount, authed)) :
             from \in Addr, amount \in LiveAmounts \cup SpendAmounts, authed \in BOOLEAN}
    \cup {Inv("burn_from", spender, authed,
              burn_from(Store, ledger, spender, from, amount, authed)) :
             spender \in Addr, from \in Addr, amount \in LiveAmounts \cup SpendAmounts, authed \in BOOLEAN}
    \cup {Inv("approve", from, authed,
              approve(Store, ledger, from, spender, x[1], x[2], authed)) :
             from \in Addr, spender \in Addr, x \in ApproveAmounts \X Expirations,
             authed \in BOOLEAN}

\* C14 as stated: an invocation lowers the balance of X only if it is a
\* transfer or burn carrying the authorization of X, or a transfer_from or
\* burn_from carrying the authorization of a spender whose allowance from X
\* covers the debit and has not expired; an invocation sets an allowance of
\* owner X only if it is an approve carrying the authorization of X, the
\* only other change of an allowance being its reduction by the spender who
\* spends it.
C14_DebitAndApproveNeedAuthorization ==
    \A i \in Invocations \cup TokenInvocations, X \in Addr :
        LET after == Commit(i.res)
        IN /\ after.balances[X] < balances[X] =>
                 /\ i.authed
                 /\ \/ i.op \in {"transfer", "burn"} /\ i.caller = X
                    \/ /\ i.op \in {"transfer_from", "burn_from"}
                       /\ Base_allowance(Store, ledger, X, i.caller)
                              >= balances[X] - after.balances[X]
           /\ \A S \in Addr :
                 after.allowances[<<X, S>>] # allowances[<<X, S>>] =>
                     /\ i.authed
                     /\ \/ i.op = "approve" /\ i.caller = X
                        \/ /\ i.op \in {"transfer_from", "burn_from"} /\ i.caller = S
                           /\ after.allowances[<<X, S>>].amount < allowances[<<X, S>>].amount
                           /\ after.allowances[<<X, S>>].live_until_ledger
                                  = allowances[<<X, S>>].live_until_ledger

\* the storage s with the pause flag set to b and nothing else changed
WithPause(s, b) == [s EXCEPT !.is_paused = b]

\* a mint of 100 to user by the minter succeeds from storage s and adds 100
\* to the balance of user and to the supply, provided the cap leaves room
MintOf100Succeeds(s, minter, user) ==
    LET m == mint(s, minter, user, 100, TRUE)
    IN s.supply + 100 <= MAX_SUPPLY =>
           /\ m.err = "Ok"
           /\ m.store = [s EXCEPT !.balances[user] = @ + 100, !.supply = @ + 100]

\* C16: on an initialized contract, in every paused state unpause by the
\* pauser is accepted and clears the flag and nothing else; in every active
\* state pause by the pauser followed by unpause by the pauser gives back
\* the storage as it was; a mint of 100 by the minter fails with Paused in
\* between and succeeds after the unpause.
C16_PauseIsReversible ==
    Initialized =>
        \A pauser \in roles[PAUSER_ROLE], minter \in roles[MINTER_ROLE], user \in Addr :
            /\ is_paused =>
                  LET u == unpause(Store, pauser, TRUE)
                      m == mint(Store, minter, user, 100, TRUE)
                  IN /\ m.err = "Paused" /\ m.store = Store
                     /\ u.err = "Ok" /\ u.store = WithPause(Store, FALSE)
                     /\ MintOf100Succeeds(u.store, minter, user)
            /\ ~is_paused =>
                  LET p == pause(Store, pauser, TRUE)
                      m == mint(p.store, minter, user, 100, TRUE)
                      u == unpause(p.store, pauser, TRUE)
                  IN /\ p.err = "Ok" /\ p.store = WithPause(Store, TRUE)
                     /\ m.err = "Paused" /\ m.store = p.store
                     /\ u.err = "Ok" /\ u.store = Store
                     /\ MintOf100Succeeds(u.store, minter, user)

\* tokens are in circulation, the contract is paused and a mint has just
\* failed with Paused
C16_Witness ==
    /\ Initialized /\ is_paused /\ supply >= MIN_AMOUNT
    /\ last.op = "mint" /\ last.err = "Paused"

\* C17: a successful mint(caller, to, amount) adds exactly amount to the
\* balance of to and to the total supply and leaves every other balance,
\* every allowance, the pause flag, the roles, the admin and the metadata
\* as they were; an account without tokens holds amount afterwards.
C17_MintEffect ==
    \A caller \in Addr, to \in Addr, amount \in AnyAmounts, authed \in BOOLEAN :
        LET r == mint(Store, caller, to, amount, authed)
        IN r.err = "Ok" =>
               /\ Commit(r) = [Store EXCEPT !.balances[to] = @ + amount, !.supply = @ + amount]
               /\ balances[to] = 0 => Base_balance(Commit(r), to) = amount
               /\ amount > 0

\* a mint has credited an account that held nothing, while another account
\* holds tokens and an allowance is in force
C17_Witness ==
    /\ last.op = "mint" /\ last.err = "Ok"
    /\ \A a \in Holders : balances[a] = MIN_AMOUNT
    /\ \E X \in Owners, S \in Spenders : Base_allowance(Store, ledger, X, S) > 0

\* what a successful transfer of amount from from to to leaves
TransferEffect(r, from, to, amount) ==
    r.err = "Ok" =>
        /\ Commit(r) = [Store EXCEPT !.balances[from] = @ - amount, !.balances[to] = @ + amount]
        /\ Commit(r).supply = supply
        /\ Commit(r).allowances = allowances
        /\ balances[from] >= amount

\* C18 as stated: a successful transfer lowers the balance of from and
\* raises the balance of to by exactly amount and leaves total supply,
\* other balances and allowances unchanged; a transfer with
\* balance[from] < amount fails with InsufficientBalance.
C18_ShortTransferIsInsufficientBalance ==
    \A from \in Addr, to \in Addr, amount \in AnyAmounts, authed \in BOOLEAN :
        LET r == transfer(Store, from, to, amount, authed)
        IN /\ TransferEffect(r, from, to, amount)
           /\ balances[from] < amount => r.err = "InsufficientBalance"

\* C18 amended: a successful transfer lowers the balance of from and raises
\* the balance of to by exactly amount and leaves total supply, other
\* balances and allowances unchanged; a transfer with balance[from] < amount
\* fails and changes nothing, with InsufficientBalance when the contract is
\* initialized and unpaused, from # to and amount lies between MIN_AMOUNT
\* and MAX_SINGLE_OPERATION, and with the error of the earlier guard
\* otherwise.
C18_TransferEffect ==
    \A from \in Addr, to \in Addr, amount \in AnyAmounts, authed \in BOOLEAN :
        LET r == transfer(Store, from, to, amount, authed)
        IN /\ TransferEffect(r, from, to, amount)
           /\ balances[from] < amount =>
                 /\ r.err # "Ok" /\ r.store = Store
                 /\ ( /\ Initialized /\ ~is_paused /\ from # to
                      /\ amount >= MIN_AMOUNT /\ amount <= MAX_SINGLE_OPERATION )
                    => r.err = "InsufficientBalance"
                 /\ (Initialized /\ ~is_paused /\ from # to /\ amount < MIN_AMOUNT)
                    => r.err = "InvalidAmount"

\* a transfer has moved tokens to a second holder while an allowance is in
\* force
C18_Witness ==
    /\ last.op = "transfer" /\ last.err = "Ok"
    /\ \E from \in Holders, to \in Holders :
          from # to /\ balances[from] = 0 /\ balances[to] = MIN_AMOUNT /\ supply = MIN_AMOUNT
    /\ \E X \in Owners, S \in Spenders : Base_allowance(Store, ledger, X, S) > 0

\* what a successful burn of amount out of from leaves
BurnEffect(r, from, amount) ==
    r.err = "Ok" =>
        /\ Commit(r) = [Store EXCEPT !.balances[from] = @ - amount, !.supply = @ - amount]
        /\ balances[from] >= amount
        /\ Base_balance(Commit(r), from) >= 0

\* C19 as stated: a successful burn lowers the balance of from and the
\* total supply by exactly amount; a burn with balance[from] < amount fails
\* with InsufficientBalance and changes nothing.
C19_ShortBurnIsInsufficientBalance ==
    \A from \in Addr, amount \in AnyAmounts, authed \in BOOLEAN :
        LET r == burn(Store, from, amount, authed)
        IN /\ BurnEffect(r, from, amount)
           /\ balances[from] < amount => (r.err = "InsufficientBalance" /\ r.store = Store)

\* C19 amended: a successful burn lowers the balance of from and the total
\* supply by exactly amount, and burning the whole balance leaves 0; a burn
\* with balance[from] < amount fails and changes nothing, with
\* InsufficientBalance when the contract is initialized and unpaused and
\* amount lies between MIN_AMOUNT and MAX_SINGLE_OPERATION, and with the
\* error of the earlier guard otherwise.
C19_BurnEffect ==
    \A from \in Addr, amount \in AnyAmounts, authed \in BOOLEAN :
        LET r == burn(Store, from, amount, authed)
        IN /\ BurnEffect(r, from, amount)
           /\ (r.err = "Ok" /\ amount = balances[from]) => Base_balance(Commit(r), from) = 0
           /\ balances[from] < amount =>
                 /\ r.err # "Ok" /\ r.store = Store
                 /\ ( /\ Initialized /\ ~is_paused
                      /\ amount >= MIN_AMOUNT /\ amount <= MAX_SINGLE_OPERATION )
                    => r.err = "InsufficientBalance"
                 /\ (Initialized /\ ~is_paused /\ amount < MIN_AMOUNT) => r.err = "InvalidAmount"

\* a holder has burnt the whole balance while another holder keeps tokens
C19_Witness ==
    /\ last.op = "burn" /\ last.err = "Ok"
    /\ \E from \in Holders, other \in Holders :
          from # other /\ balances[from] = 0 /\ balances[other] = MIN_AMOUNT
                       /\ supply = MIN_AMOUNT

\* C20: a successful approve(owner, spender, amount, expiration) replaces
\* the allowance record of (owner, spender): afterwards allowance(owner,
\* spender) is amount whatever it was before, and no balance, no other
\* allowance, nor the total supply or anything else has changed.
C20_ApproveOverwrites ==
    \A owner \in Addr, spender \in Addr, amount \in ApproveAmounts \cup {-1, MIN_AMOUNT},
       expiration_ledger \in 0..(MaxLedger + 1), authed \in BOOLEAN :
        LET r == approve(Store, ledger, owner, spender, amount, expiration_ledger, authed)
        IN r.err = "Ok" =>
               /\ allowance(Commit(r), ledger, owner, spender).val = amount
               /\ Commit(r) = [Store EXCEPT !.allowances[<<owner, spender>>] =
                                  [amount |-> amount, live_until_ledger |-> expiration_ledger]]
               /\ \A p \in (Addr \X Addr) \ {<<owner, spender>>} :
                     Commit(r).allowances[p] = allowances[p]
               /\ Commit(r).balances = balances /\ Commit(r).supply = supply

\* an approve has succeeded on a contract with tokens in circulation and
\* left an allowance in force, which a further approve would replace
C20_Witness ==
    /\ last.op = "approve" /\ last.err = "Ok" /\ supply >= MIN_AMOUNT
    /\ \E X \in Owners, S \in Spenders : allowance(Store, ledger, X, S).val = MIN_AMOUNT + 1

\* C21 as stated: on an initialized contract name() is "Costa Rica Colon",
\* symbol() is "CRCX" and decimals() is 2.
C21_MetadataAsDocumented ==
    Initialized =>
        /\ name(Store) = [err |-> "Ok", val |-> "Costa Rica Colon"]
        /\ symbol(Store) = [err |-> "Ok", val |-> "CRCX"]
        /\ decimals(Store) = [err |-> "Ok", val |-> 2]

\* C22 as stated: the caller is authenticated before the pause flag is
\* read and before any validation guard runs, so every mutating call that
\* does not carry the authorization it needs fails at authentication,
\* whatever the pause flag, the roles and the arguments.
C22_AuthenticationFirst ==
    \A a \in Addr, b \in Addr, amount \in LiveAmounts :
        /\ mint(Store, a, b, amount, FALSE).err = "AuthFailed"
        /\ transfer(Store, a, b, amount, FALSE).err = "AuthFailed"
        /\ burn(Store, a, amount, FALSE).err = "AuthFailed"
        /\ burn_from(Store, ledger, a, b, amount, FALSE).err = "AuthFailed"
        /\ \A c \in Holders :
              transfer_from(Store, ledger, a, b, c, amount, FALSE).err = "AuthFailed"
        /\ pause(Store, a, FALSE).err = "AuthFailed"
        /\ unpause(Store, a, FALSE).err = "AuthFailed"

\* the error of the first failing stage in a list of <<failed, error>> stages
RECURSIVE FirstStage(_, _)
FirstStage(stages, i) ==
    IF i > Len(stages) THEN "Ok"
    ELSE IF stages[i][1] THEN stages[i][2]
    ELSE FirstStage(stages, i + 1)

\* the stages of spending amount out of the allowance of owner to spender:
\* the stored amount must cover it, and a positive remainder is written
\* back only while the record has not expired
SpendStages(s, lg, owner, spender, amount) ==
    LET a == s.allowances[<<owner, spender>>]
    IN << <<amount < 0, "LessThanZero">>,
          <<a.amount < amount, "InsufficientAllowance">>,
          <<amount > 0 /\ a.amount > amount /\ a.live_until_ledger < lg,
            "InvalidLiveUntilLedger">> >>

\* C22 amended: every mutating call stops at its first failing stage, and
\* the stages run in this order: mint and batch_mint read the pause flag,
\* then authenticate the caller, then check the Minter role, then validate;
\* transfer, transfer_from, burn and burn_from read the pause flag, then
\* validate, and authenticate (from, or the spender, whose allowance is
\* checked next) only afterwards; pause and unpause authenticate, then check
\* the Pauser role, and do not read the pause flag as a gate; approve reads
\* the pause flag and then authenticates the owner.
C22_StageOrder ==
    \A a \in Addr, authed \in BOOLEAN :
        /\ pause(Store, a, authed).err =
              FirstStage(<< <<~authed, "AuthFailed">>,
                            <<a \notin roles[PAUSER_ROLE], "Unauthorized">>,
                            <<is_paused, "EnforcedPause">> >>, 1)
        /\ unpause(Store, a, authed).err =
              FirstStage(<< <<~authed, "AuthFailed">>,
                            <<a \notin roles[PAUSER_ROLE], "Unauthorized">>,
                            <<~is_paused, "ExpectedPause">> >>, 1)
        /\ \A amount \in LiveAmounts :
              LET vb == validate_burn_comprehensive(Store, a, amount)
              IN burn(Store, a, amount, authed).err =
                     FirstStage(<< <<is_paused, "Paused">>, <<vb # "Ok", vb>>,
                                   <<~authed, "AuthFailed">> >>, 1)
        /\ \A b \in Addr, amount \in LiveAmounts :
              LET vm == validate_mint_comprehensive(Store, b, amount)
                  vt == validate_transfer_comprehensive(Store, a, b, amount)
                  vg == validate_burn_comprehensive(Store, b, amount)
                  spending == SpendStages(Store, ledger, b, a, amount)
                  minting == << <<is_paused, "Paused">>, <<~authed, "AuthFailed">>,
                                <<a \notin roles[MINTER_ROLE], "Unauthorized">>,
                                <<vm # "Ok", vm>> >>
              IN /\ mint(Store, a, b, amount, authed).err = FirstStage(minting, 1)
                 /\ batch_mint(Store, a, << <<b, amount>> >>, authed).err = FirstStage(minting, 1)
                 /\ transfer(Store, a, b, amount, authed).err =
                       FirstStage(<< <<is_paused, "Paused">>, <<vt # "Ok", vt>>,
                                     <<~authed, "AuthFailed">> >>, 1)
                 /\ burn_from(Store, ledger, a, b, amount, authed).err =
                       FirstStage(<< <<is_paused, "Paused">>, <<vg # "Ok", vg>>,
                                     <<~authed, "AuthFailed">> >>
                                  \o spending, 1)
                 /\ approve(Store, ledger, a, b, amount, ledger, authed).err =
                       FirstStage(<< <<is_paused, "Paused">>, <<~authed, "AuthFailed">> >>, 1)
                 /\ \A c \in Holders :
                       LET vf == validate_transfer_comprehensive(Store, b, c, amount)
                       IN transfer_from(Store, ledger, a, b, c, amount, authed).err =
                              FirstStage(<< <<is_paused, "Paused">>, <<vf # "Ok", vf>>,
                                            <<~authed, "AuthFailed">> >>
                                         \o spending, 1)

\* a burn passed the pause gate and the validation guards and was stopped
\* at the authentication of the holder
C22_Witness ==
    /\ Initialized /\ ~is_paused
    /\ last.op = "burn" /\ last.err = "AuthFailed"

\* the guards of the amount range, as two stages
AmountStages(amount) ==
    << <<amount < MIN_AMOUNT, "InvalidAmount">>,
       <<amount > MAX_SINGLE_OPERATION, "AmountTooLarge">> >>

\* the initialized guard: Base::name panics while the metadata is unset, and
\* an empty name is refused
InitStages(s) ==
    << <<~s.metadata.set, "UnsetMetadata">>,
       <<s.metadata.name = "", "ContractNotInitialized">> >>

\* in storage s, unpaused, a mint by the authenticated minter, a transfer, a
\* transfer_from and a burn or burn_from by authenticated callers return
\* the error of the first failing guard in the documented order
GuardOrder(s) ==
    ~s.is_paused =>
        \A a \in Holders, b \in Holders, amount \in CapAmounts :
            LET init == InitStages(s)
                short == <<s.balances[a] < amount, "InsufficientBalance">>
                moving == init \o << <<a = "", "ZeroAddress">>, <<b = "", "ZeroAddress">>,
                                     <<a = b, "SelfTransfer">> >>
                               \o AmountStages(amount) \o <<short>>
                burning == init \o << <<a = "", "ZeroAddress">> >>
                                \o AmountStages(amount) \o <<short>>
                spending == SpendStages(s, ledger, a, "GA3", amount)
            IN /\ \A minter \in s.roles[MINTER_ROLE] :
                     mint(s, minter, a, amount, TRUE).err =
                        FirstStage(init \o << <<a = "", "ZeroAddress">> >>
                                        \o AmountStages(amount)
                                        \o << <<s.supply + amount > MAX_SUPPLY,
                                                "ExceedsMaxSupply">> >>, 1)
               /\ transfer(s, a, b, amount, TRUE).err = FirstStage(moving, 1)
               /\ transfer_from(s, ledger, "GA3", a, b, amount, TRUE).err =
                     FirstStage(moving \o spending, 1)
               /\ burn(s, a, amount, TRUE).err = FirstStage(burning, 1)
               /\ burn_from(s, ledger, "GA3", a, amount, TRUE).err =
                     FirstStage(burning \o spending, 1)

\* C23: on the constructed contract before initialize and in every
\* reachable storage after it, while unpaused, a mint by the authenticated
\* minter, a transfer, a transfer_from and a burn or burn_from by
\* authenticated callers return the error of the first failing guard, in
\* this order: mint: initialized, address, amount range, supply limit;
\* transfer and transfer_from: initialized, address (from), address (to),
\* self-transfer, amount range, balance; burn and burn_from: initialized,
\* address, amount range, balance.  A mint above MAX_SINGLE_OPERATION that
\* would also exceed MAX_SUPPLY fails with AmountTooLarge, a transfer to
\* oneself below MIN_AMOUNT with SelfTransfer, and a transfer below
\* MIN_AMOUNT without the balance with InvalidAmount; before initialize the
\* initialized guard stops every transfer and burn, whatever else is wrong.
C23_GuardOrder == GuardOrder(Store) /\ GuardOrder(Fresh)

\* a mint above MAX_SINGLE_OPERATION was rejected as AmountTooLarge while
\* the supply was so close to MAX_SUPPLY that the supply limit failed too
C23_Witness ==
    /\ ~is_paused
    /\ last.op = "mint" /\ last.err = "AmountTooLarge"
    /\ supply + MAX_SINGLE_OPERATION > MAX_SUPPLY

\* the stored allowance of spender over the funds of owner has expired
Expired(owner, spender) == allowances[<<owner, spender>>].live_until_ledger < ledger

\* every transfer_from and burn_from of amount by spender out of owner
SpendsOf(owner, spender, amount, authed) ==
    {transfer_from(Store, ledger, spender, owner, to, amount, authed) : to \in Holders}
    \cup {burn_from(Store, ledger, spender, owner, amount, authed)}

ContractEvents(evs) == SelectSeq(evs, LAMBDA e : e.by = "contract")

\* the one event with topics and data that the claim expects of a call
\* with result r that published evs
OneEvent(r, evs, topics, data) ==
    IF r.err = "Ok"
    THEN Len(evs) = 1 /\ evs[1].topics = topics /\ evs[1].data = data
    ELSE evs = <<>>

\* the events found: the contract's event with topics and data comes last,
\* after the event of the library call that made the change
OwnEventLast(r, evs, topics, data) ==
    IF r.err = "Ok"
    THEN /\ ContractEvents(evs) = <<publish(topics, data)>>
         /\ evs[Len(evs)] = publish(topics, data)
    ELSE evs = <<>>

\* the calls C25 is about, as <<result, events, topics, data>>
EventCalls ==
    UNION {
      {<<mint(Store, a, b, amount, TRUE), mint_events(Store, a, b, amount, TRUE),
         <<MINT_EVENT, b>>, <<amount>> >>,
       <<transfer(Store, a, b, amount, TRUE), transfer_events(Store, a, b, amount, TRUE),
         <<TRANSFER_EVENT, a, b>>, <<amount>> >>,
       <<transfer_from(Store, ledger, "GA3", a, b, amount, TRUE),
         transfer_from_events(Store, ledger, "GA3", a, b, amount, TRUE),
         <<TRANSFER_EVENT, a, b>>, <<amount>> >>,
       <<burn(Store, b, amount, TRUE), burn_events(Store, b, amount, TRUE),
         <<BURN_EVENT, b>>, <<amount>> >>,
       <<burn_from(Store, ledger, "GA3", a, amount, TRUE),
         burn_from_events(Store, ledger, "GA3", a, amount, TRUE),
         <<BURN_EVENT, a>>, <<amount>> >>,
       <<pause(Store, a, TRUE), pause_events(Store, a, TRUE), <<PAUSE_EVENT>>, <<>> >>,
       <<unpause(Store, a, TRUE), unpause_events(Store, a, TRUE), <<UNPAUSE_EVENT>>, <<>> >>}
      : a \in Addr, b \in Holders, amount \in LiveAmounts }

\* the entries of recipients as the mint events C25 expects, in list order
EntryEvents(recipients) ==
    [i \in 1..Len(recipients) |-> publish(<<MINT_EVENT, recipients[i][1]>>, <<recipients[i][2]>>)]

\* C25 as stated: a successful mint, transfer, transfer_from, burn,
\* burn_from, pause or unpause publishes exactly one event, with the
\* matching topic and the amount; a successful batch_mint publishes one
\* mint event per entry, in list order; a failing call publishes none.
C25_ExactlyOneEvent ==
    /\ \A c \in EventCalls : OneEvent(c[1], c[2], c[3], c[4])
    /\ \A caller \in Addr, recipients \in Batches :
          LET r == batch_mint(Store, caller, recipients, TRUE)
              evs == batch_mint_events(Store, caller, recipients, TRUE)
          IN IF r.err = "Ok"
             THEN /\ Len(evs) = Len(recipients)
                  /\ \A i \in 1..Len(evs) :
                        /\ evs[i].topics = EntryEvents(recipients)[i].topics
                        /\ evs[i].data = EntryEvents(recipients)[i].data
             ELSE evs = <<>>

\* C25 amended: a successful mint, transfer, transfer_from, burn, burn_from,
\* pause or unpause publishes exactly one event of the contract's own, with
\* the matching topic (mint, transfer, burn, pause, unpause) and the amount,
\* as the last event of the call, after the event that the library call
\* making the change publishes; a successful batch_mint publishes one mint
\* event of its own per entry, in list order, each after the library's event
\* for that entry; a failing call publishes no event.
C25_OwnEventFollowsChange ==
    /\ \A c \in EventCalls : OwnEventLast(c[1], c[2], c[3], c[4])
    /\ \A caller \in Addr, recipients \in Batches :
          LET r == batch_mint(Store, caller, recipients, TRUE)
              evs == batch_mint_events(Store, caller, recipients, TRUE)
          IN IF r.err = "Ok"
             THEN /\ ContractEvents(evs) = EntryEvents(recipients)
                  /\ Len(evs) = 2 * Len(recipients)
                  /\ \A i \in 1..Len(recipients) : evs[2 * i] = EntryEvents(recipients)[i]
             ELSE evs = <<>>

\* after a successful transfer_from, in a state where the minter can mint a
\* batch of two entries, which publishes two mint events of the contract
C25_Witness ==
    /\ last.op = "transfer_from" /\ last.err = "Ok"
    /\ \E recipients \in Batches :
          /\ Len(recipients) = 2
          /\ Len(ContractEvents(batch_mint_events(Store, "GA3", recipients, TRUE))) = 2

\* C26: before initialize every mint, batch_mint, transfer, transfer_from,
\* burn and burn_from fails with ContractNotInitialized and changes nothing,
\* and in every state with a non-zero total supply the contract is
\* initialized.
C26_UninitializedIsContractNotInitialized ==
    /\ supply # 0 => Initialized
    /\ ~Initialized =>
          \A a \in Addr, b \in Addr, amount \in LiveAmounts :
              LET calls == {mint(Store, a, b, amount, TRUE),
                            batch_mint(Store, a, << <<b, amount>> >>, TRUE),
                            transfer(Store, a, b, amount, TRUE),
                            transfer_from(Store, ledger, "GA3", a, b, amount, TRUE),
                            burn(Store, a, amount, TRUE),
                            burn_from(Store, ledger, "GA3", a, amount, TRUE)}
              IN \A r \in calls : r.err = "ContractNotInitialized" /\ Commit(r) = Store

\* no balance differs between s and Store by more than MAX_SINGLE_OPERATION
WithinOneOperation(s) ==
    \A x \in Addr : /\ s.balances[x] - balances[x] <= MAX_SINGLE_OPERATION
                    /\ balances[x] - s.balances[x] <= MAX_SINGLE_OPERATION

\* C27 as stated: on an initialized, unpaused contract every mint, transfer,
\* transfer_from, burn and burn_from of more than MAX_SINGLE_OPERATION fails
\* with AmountTooLarge and changes nothing, exactly MAX_SINGLE_OPERATION
\* passes the amount-range guard, and no successful call changes a balance
\* by more than MAX_SINGLE_OPERATION.
C27_AboveLimitIsAmountTooLarge ==
    (Initialized /\ ~is_paused) =>
       /\ validate_amount_range(MAX_SINGLE_OPERATION) = "Ok"
       /\ \A a \in Addr, b \in Holders, c \in Holders :
             LET amount == MAX_SINGLE_OPERATION + 1
                 calls == {mint(Store, a, b, amount, TRUE),
                           transfer(Store, b, c, amount, TRUE),
                           transfer_from(Store, ledger, a, b, c, amount, TRUE),
                           burn(Store, b, amount, TRUE),
                           burn_from(Store, ledger, a, b, amount, TRUE)}
             IN \A r \in calls : r.err = "AmountTooLarge" /\ Commit(r) = Store
       /\ \A a \in Addr, b \in Holders, c \in Holders, amount \in CapAmounts :
             LET calls == {mint(Store, a, b, amount, TRUE),
                           transfer(Store, b, c, amount, TRUE),
                           transfer_from(Store, ledger, a, b, c, amount, TRUE),
                           burn(Store, b, amount, TRUE),
                           burn_from(Store, ledger, a, b, amount, TRUE)}
             IN \A r \in calls : WithinOneOperation(Commit(r))
       /\ \A a \in Addr, recipients \in CapBatches :
             WithinOneOperation(Commit(batch_mint(Store, a, recipients, TRUE)))

\* C27 amended: on an initialized, unpaused contract every mint, transfer,
\* transfer_from, burn and burn_from of more than MAX_SINGLE_OPERATION fails
\* and changes nothing, with AmountTooLarge when the caller of mint is the
\* authenticated minter and when from differs from to in a transfer or
\* transfer_from (Unauthorized and SelfTransfer come first otherwise);
\* exactly MAX_SINGLE_OPERATION passes the amount-range guard, and is minted
\* or transferred when the supply limit and the balance allow it; no
\* successful mint, transfer, transfer_from, burn or burn_from changes a
\* balance by more than MAX_SINGLE_OPERATION.  (A batch_mint can: it may name one account in
\* several entries.)
C27_OperationLimit ==
    (Initialized /\ ~is_paused) =>
       /\ validate_amount_range(MAX_SINGLE_OPERATION) = "Ok"
       /\ \A a \in Addr, b \in Holders, c \in Holders :
             LET amount == MAX_SINGLE_OPERATION + 1
                 m == mint(Store, a, b, amount, TRUE)
                 tr == transfer(Store, b, c, amount, TRUE)
                 tf == transfer_from(Store, ledger, a, b, c, amount, TRUE)
                 bu == burn(Store, b, amount, TRUE)
                 bf == burn_from(Store, ledger, a, b, amount, TRUE)
             IN /\ \A r \in {m, tr, tf, bu, bf} : r.err # "Ok" /\ Commit(r) = Store
                /\ m.err = IF a \in roles[MINTER_ROLE] THEN "AmountTooLarge" ELSE "Unauthorized"
                /\ tr.err = IF b # c THEN "AmountTooLarge" ELSE "SelfTransfer"
                /\ tf.err = tr.err
                /\ bu.err = "AmountTooLarge" /\ bf.err = "AmountTooLarge"
       /\ \A a \in roles[MINTER_ROLE], b \in Holders :
          \A c \in Holders \ {b} :
             LET amount == MAX_SINGLE_OPERATION
             IN /\ supply + amount <= MAX_SUPPLY => mint(Store, a, b, amount, TRUE).err = "Ok"
                /\ balances[b] >= amount => transfer(Store, b, c, amount, TRUE).err = "Ok"
                /\ balances[b] >= amount => burn(Store, b, amount, TRUE).err = "Ok"
       /\ \A a \in Addr, b \in Holders, c \in Holders, amount \in CapAmounts :
             LET calls == {mint(Store, a, b, amount, TRUE),
                           transfer(Store, b, c, amount, TRUE),
                           transfer_from(Store, ledger, a, b, c, amount, TRUE),
                           burn(Store, b, amount, TRUE),
                           burn_from(Store, ledger, a, b, amount, TRUE)}
             IN \A r \in calls : WithinOneOperation(Commit(r))

\* a transfer of exactly MAX_SINGLE_OPERATION has gone through on the
\* unpaused contract
C27_Witness ==
    /\ ~is_paused
    /\ last.op = "transfer" /\ last.err = "Ok"
    /\ balances["GA2"] = MAX_SINGLE_OPERATION

\* C28 as stated: pause(pauser) on a paused contract succeeds and leaves it
\* paused; the pause gate has two states and starts Active.
C28_PauseIsIdempotent ==
    /\ is_paused \in BOOLEAN
    /\ ~Initialized => ~is_paused
    /\ is_paused =>
          \A p \in roles[PAUSER_ROLE] :
              LET r == pause(Store, p, TRUE)
              IN r.err = "Ok" /\ Commit(r).is_paused

\* C28 amended: pause is not idempotent: pause(pauser) on a paused contract
\* fails with the library's EnforcedPause, and leaves it paused and
\* everything else as it is, while on an active contract it succeeds and
\* pauses; the pause gate has exactly two states and is Active from
\* construction until the first successful pause.
C28_PauseOnPausedFails ==
    /\ is_paused \in BOOLEAN
    /\ ~Initialized => ~is_paused
    /\ \A p \in roles[PAUSER_ROLE] :
          LET r == pause(Store, p, TRUE)
          IN IF is_paused
             THEN r.err = "EnforcedPause" /\ Commit(r) = Store
             ELSE r.err = "Ok" /\ Commit(r) = [Store EXCEPT !.is_paused = TRUE]

\* the pauser has called pause on the paused contract and was refused
C28_Witness ==
    /\ is_paused
    /\ last.op = "pause" /\ last.err = "EnforcedPause"

\* the successive calls mint(caller, p_i), ..., mint(caller, p_n), each on
\* the storage the one before it left; the first failure ends the sequence
RECURSIVE MintEach(_, _, _, _)
MintEach(s, caller, recipients, i) ==
    IF i > Len(recipients) THEN Ok(s)
    ELSE LET r == mint(s, caller, recipients[i][1], recipients[i][2], TRUE)
         IN IF r.err = "Ok" THEN MintEach(r.store, caller, recipients, i + 1) ELSE r

\* C29: a batch_mint by the minter ends as the successive mint calls of its
\* pairs end: it succeeds exactly when they all do and then leaves the same
\* balances and total supply, and it fails with the error of the first
\* failing mint; on the unpaused contract, a batch whose amounts each pass
\* the amount range and the supply limit on their own but whose running
\* total exceeds MAX_SUPPLY fails with ExceedsMaxSupply and changes nothing.
C29_BatchIsSuccessiveMints ==
    \A caller \in roles[MINTER_ROLE], recipients \in CapBatches :
        LET r == batch_mint(Store, caller, recipients, TRUE)
            each == MintEach(Store, caller, recipients, 1)
        IN /\ r.err = each.err
           /\ r.err = "Ok" => /\ r.store.balances = each.store.balances
                              /\ r.store.supply = each.store.supply
                              /\ r.store.supply = supply + SumAmounts(recipients, Len(recipients))
           /\ ( /\ ~is_paused
                /\ \A i \in 1..Len(recipients) :
                      validate_mint_comprehensive(Store, recipients[i][1], recipients[i][2]) = "Ok"
                /\ supply + SumAmounts(recipients, Len(recipients)) > MAX_SUPPLY )
              => (r.err = "ExceedsMaxSupply" /\ Commit(r) = Store)

\* a batch of two pairs was refused with ExceedsMaxSupply although either
\* pair alone fits under MAX_SUPPLY
C29_Witness ==
    /\ last.op = "batch_mint" /\ last.err = "ExceedsMaxSupply"
    /\ supply + (MAX_SINGLE_OPERATION - MIN_AMOUNT) <= MAX_SUPPLY
    /\ supply + 2 * MIN_AMOUNT <= MAX_SUPPLY

\* C30: in every reachable state 0 <= total_supply <= MAX_SUPPLY, whatever
\* mints and batch_mints came before, and a step raises the total supply
\* only if it is a successful mint or batch_mint and lowers it only if it is
\* a successful burn or burn_from.
C30_SupplyWithinCap ==
    /\ [](0 <= supply /\ supply <= MAX_SUPPLY /\ total_supply(Store).val = supply)
    /\ [][/\ supply' > supply => (last'.op \in {"mint", "batch_mint"} /\ last'.err = "Ok")
          /\ supply' < supply => (last'.op \in {"burn", "burn_from"} /\ last'.err = "Ok")]_vars

\* a batch_mint has brought the total supply to exactly MAX_SUPPLY
C30_Witness ==
    /\ supply = MAX_SUPPLY
    /\ last.op = "batch_mint" /\ last.err = "Ok"

\* the amounts a debit is tried with: below, at and above MIN_AMOUNT, and
\* around MAX_SINGLE_OPERATION
DebitAmounts == {0, 1, MIN_AMOUNT - 1, MIN_AMOUNT, MIN_AMOUNT + 3,
                 MAX_SINGLE_OPERATION, MAX_SINGLE_OPERATION + 1}

\* the accounts whose balance is positive and below MIN_AMOUNT
Dust == {a \in Addr : 0 < balances[a] /\ balances[a] < MIN_AMOUNT}

\* the debits of amount out of from, by from itself and by spender
Debits(from, to, spender, amount, authed) ==
    {transfer(Store, from, to, amount, authed),
     transfer_from(Store, ledger, spender, from, to, amount, authed),
     burn(Store, from, amount, authed),
     burn_from(Store, ledger, spender, from, amount, authed)}

\* C31 as stated: every transfer, transfer_from, burn and burn_from out of
\* an account whose balance is positive and below MIN_AMOUNT fails, with
\* InvalidAmount when amount < MIN_AMOUNT and with InsufficientBalance when
\* amount >= MIN_AMOUNT.
C31_DustDebitIsInvalidOrInsufficient ==
    \A from \in Dust, to \in Addr, spender \in Addr, amount \in DebitAmounts, authed \in BOOLEAN :
        \A r \in Debits(from, to, spender, amount, authed) :
            /\ Commit(r) = Store
            /\ r.err = IF amount < MIN_AMOUNT THEN "InvalidAmount" ELSE "InsufficientBalance"

\* C31 amended: every transfer, transfer_from, burn and burn_from out of an
\* account whose balance is positive and below MIN_AMOUNT fails and changes
\* nothing; on the unpaused contract the error is InvalidAmount when
\* amount < MIN_AMOUNT, InsufficientBalance when amount is between
\* MIN_AMOUNT and MAX_SINGLE_OPERATION and AmountTooLarge above that, except
\* that a transfer or transfer_from to the account itself fails with
\* SelfTransfer; on the paused contract the error is Paused.  Such balances
\* are reachable.
C31_DustCannotBeDebited ==
    \A from \in Dust, to \in Addr, spender \in Addr, amount \in DebitAmounts, authed \in BOOLEAN :
        LET ranged == IF amount < MIN_AMOUNT THEN "InvalidAmount"
                      ELSE IF amount > MAX_SINGLE_OPERATION THEN "AmountTooLarge"
                      ELSE "InsufficientBalance"
            moved == IF is_paused THEN "Paused"
                     ELSE IF from = to THEN "SelfTransfer" ELSE ranged
            burnt == IF is_paused THEN "Paused" ELSE ranged
        IN /\ \A r \in Debits(from, to, spender, amount, authed) :
                 r.err # "Ok" /\ Commit(r) = Store
           /\ transfer(Store, from, to, amount, authed).err = moved
           /\ transfer_from(Store, ledger, spender, from, to, amount, authed).err = moved
           /\ burn(Store, from, amount, authed).err = burnt
           /\ burn_from(Store, ledger, spender, from, amount, authed).err = burnt

\* a burn of MIN_AMOUNT out of the 3 tokens that an earlier debit left
\* behind was refused
C31_Witness ==
    /\ ~is_paused
    /\ balances["GA1"] = 3
    /\ last.op = "burn" /\ last.err = "InsufficientBalance"

\* C32: approve is subject to the pause gate and to none of the validation
\* guards: on the unpaused contract, initialized or not, an approve by the
\* authenticated owner with an expiration ledger that has not passed
\* succeeds and records the allowance for amount 0, for an amount below
\* MIN_AMOUNT, for an amount above the owner's balance, for an amount above
\* MAX_SINGLE_OPERATION, and for spender = owner; on the paused contract it
\* fails with Paused.
C32_ApproveIsNotValidated ==
    \A owner \in Addr, spender \in Addr, expiration_ledger \in ledger..MaxLedger :
      \A amount \in {0, MIN_AMOUNT - 1, balances[owner] + 1, MAX_SINGLE_OPERATION + 1} :
        LET r == approve(Store, ledger, owner, spender, amount, expiration_ledger, TRUE)
        IN IF is_paused
           THEN r.err = "Paused" /\ Commit(r) = Store
           ELSE /\ r.err = "Ok"
                /\ Commit(r).allowances[<<owner, spender>>] =
                      [amount |-> amount, live_until_ledger |-> expiration_ledger]
                /\ allowance(Commit(r), ledger, owner, spender).val = amount

\* before initialize, an owner holding nothing has approved itself as
\* spender of an amount
C32_Witness ==
    /\ ~Initialized /\ ~is_paused
    /\ last.op = "approve" /\ last.err = "Ok"
    /\ allowances[<<"GA1", "GA1">>].amount > balances["GA1"]

====
